---- MODULE Spec2Model ----
(***************************************************************************)
(* Model of the decoder / tokenizer core of slurm_status_tools.             *)
(*                                                                         *)
(* Python strings are sequences of one-character strings, Python lists are  *)
(* sequences, Python dicts are sequences of <<key, value>> entries in       *)
(* insertion order with pairwise distinct keys.  A call either returns a    *)
(* value or raises; the outcome of a call is a record                       *)
(*     [tag |-> "ok" | "none" | "raise", val |-> ..., exc |-> ...].         *)
(***************************************************************************)
EXTENDS Integers, Sequences, FiniteSets, TLC

VARIABLES input, op, result

vars == <<input, op, result>>

(***************************************************************************)
(* Bounds of the explored inputs.                                          *)
(***************************************************************************)
MaxPairs == 2
MaxValLen == 3
MaxTailLines == 1
MaxCols == 2
MaxRows == 2
MaxStrLen == 3
MaxTypeLen == 3
MaxTresTokens == 2

(***************************************************************************)
(* Outcomes of a call.                                                     *)
(***************************************************************************)
Ok(v) == [tag |-> "ok", val |-> v, exc |-> ""]
None == [tag |-> "none", val |-> <<>>, exc |-> ""]
Raise(e) == [tag |-> "raise", val |-> <<>>, exc |-> e]
NotCalled == [tag |-> "idle", val |-> <<>>, exc |-> ""]

(***************************************************************************)
(* Python built-ins on strings and lists.                                  *)
(***************************************************************************)
Str(s) == [i \in 1..Len(s) |-> s[i]]

Contains(s, c) == \E i \in 1..Len(s) : s[i] = c

Find(s, c) == IF Contains(s, c) THEN CHOOSE i \in 1..Len(s) : s[i] = c /\ \A j \in 1..(i-1) : s[j] # c ELSE 0

RECURSIVE PySplit(_, _)
PySplit(s, d) == IF Find(s, d) = 0 THEN <<s>> ELSE <<SubSeq(s, 1, Find(s, d) - 1)>> \o PySplit(SubSeq(s, Find(s, d) + 1, Len(s)), d)

PySplitMax1(s, d) == IF Find(s, d) = 0 THEN <<s>> ELSE <<SubSeq(s, 1, Find(s, d) - 1), SubSeq(s, Find(s, d) + 1, Len(s))>>

RECURSIVE PyJoin(_, _)
PyJoin(d, parts) == IF Len(parts) = 0 THEN <<>> ELSE IF Len(parts) = 1 THEN parts[1] ELSE parts[1] \o d \o PyJoin(d, Tail(parts))

PyReversed(s) == [i \in 1..Len(s) |-> s[Len(s) + 1 - i]]

UpperLetters == <<"A","B","C","D","E","F","G","H","I","J","K","L","M","N","O","P","Q","R","S","T","U","V","W","X","Y","Z">>

LowerLetters == <<"a","b","c","d","e","f","g","h","i","j","k","l","m","n","o","p","q","r","s","t","u","v","w","x","y","z">>

CasefoldChar(c) == IF \E i \in 1..26 : UpperLetters[i] = c THEN LowerLetters[CHOOSE i \in 1..26 : UpperLetters[i] = c] ELSE c

PyCasefold(s) == [i \in 1..Len(s) |-> CasefoldChar(s[i])]

(***************************************************************************)
(* Python dicts: insertion-ordered, assignment to an existing key keeps    *)
(* the key's position and replaces its value.                              *)
(***************************************************************************)
DictKeys(d) == [i \in 1..Len(d) |-> d[i][1]]

DictHas(d, k) == \E i \in 1..Len(d) : d[i][1] = k

DictGet(d, k) == d[CHOOSE i \in 1..Len(d) : d[i][1] = k][2]

DictSet(d, k, v) == IF DictHas(d, k) THEN [i \in 1..Len(d) |-> IF d[i][1] = k THEN <<k, v>> ELSE d[i]] ELSE Append(d, <<k, v>>)

RECURSIVE DictFromItems(_)
DictFromItems(items) == IF Len(items) = 0 THEN <<>> ELSE DictSet(DictFromItems(SubSeq(items, 1, Len(items) - 1)), items[Len(items)][1], items[Len(items)][2])

KeySet(d) == {d[i][1] : i \in 1..Len(d)}

(***************************************************************************)
(* src/src/parse.py, src/src/gather/parse.py: the record tokenizer.        *)
(***************************************************************************)
DELIMITER == <<" ">>

SEPARATOR == <<"=">>

\* Variant of KeyRest that splits at the last SEPARATOR of the part
\* (part.rsplit(SEPARATOR, 1)).
KeyRestAtLastSeparator(part) == LET n == CHOOSE i \in 1..Len(part) : part[i] = "=" /\ \A j \in (i+1)..Len(part) : part[j] # "=" IN <<SubSeq(part, 1, n - 1), SubSeq(part, n + 1, Len(part))>>

\* key_rest = part.split(SEPARATOR, 1)
KeyRest(part) == PySplitMax1(part, "=")

\* Variant of TokenizeLoop that joins the value accumulator without
\* reversing it.
RECURSIVE TokenizeLoopUnreversed(_, _, _)
TokenizeLoopUnreversed(parts, value_accumulator, res) ==
    IF Len(parts) = 0 THEN res
    ELSE IF ~Contains(parts[1], "=")
         THEN TokenizeLoopUnreversed(Tail(parts), Append(value_accumulator, parts[1]), res)
         ELSE LET key_rest == KeyRest(parts[1])
                  acc == Append(value_accumulator, key_rest[2])
                  value == PyJoin(DELIMITER, acc)
              IN TokenizeLoopUnreversed(Tail(parts), <<>>, Append(res, <<key_rest[1], value>>))

\* The loop body of tokenize_scontrol_line for the parts still to be read
\* (in reading order, i.e. last part of the line first).
RECURSIVE TokenizeLoop(_, _, _)
TokenizeLoop(parts, value_accumulator, res) ==
    IF Len(parts) = 0 THEN res
    ELSE IF ~Contains(parts[1], "=")
         THEN TokenizeLoop(Tail(parts), Append(value_accumulator, parts[1]), res)
         ELSE LET key_rest == KeyRest(parts[1])
                  acc == Append(value_accumulator, key_rest[2])
                  value == PyJoin(DELIMITER, PyReversed(acc))
              IN TokenizeLoop(Tail(parts), <<>>, Append(res, <<key_rest[1], value>>))

tokenize_scontrol_line(_s) == TokenizeLoop(PyReversed(PySplit(_s, " ")), <<>>, <<>>)

_tokenize_scontrol_line(_s) == TokenizeLoop(PyReversed(PySplit(_s, " ")), <<>>, <<>>)

\* data = {key: [] for key in keys}; [data[k].append(v) for k, v in tokens]
RECURSIVE AppendTokens(_, _)
AppendTokens(data, tokens) == IF Len(tokens) = 0 THEN data ELSE AppendTokens(DictSet(data, tokens[1][1], Append(DictGet(data, tokens[1][1]), tokens[1][2])), Tail(tokens))

CollectTokens(tokens) == AppendTokens(DictFromItems([i \in 1..Len(tokens) |-> <<tokens[i][1], <<>> >>]), tokens)

\* src/src/parse.py: the last comprehension iterates the dict itself, so each
\* key string is unpacked into (k, v); a key whose length is not 2 raises
\* ValueError, a key "xy" yields the entry "x" -> join("y") = "y".
parse_scontrol_line(_s, join_duplicates_with) ==
    LET tokens == tokenize_scontrol_line(_s)
        data == CollectTokens(tokens)
    IN IF \E i \in 1..Len(data) : Len(data[i][1]) # 2
       THEN Raise("ValueError")
       ELSE Ok(DictFromItems([i \in 1..Len(data) |-> << <<data[i][1][1]>>, PyJoin(join_duplicates_with, << <<data[i][1][2]>> >>) >>]))

\* src/src/gather/parse.py: the comprehension iterates data.items().
_parse_scontrol_line(_s, join_duplicates_with) ==
    LET tokens == _tokenize_scontrol_line(_s)
        data == CollectTokens(tokens)
    IN Ok(DictFromItems([i \in 1..Len(data) |-> <<data[i][1], PyJoin(join_duplicates_with, data[i][2])>>]))

\* A list comprehension over calls raises as soon as one call raises.
MapOutcomes(outs) == IF \E i \in 1..Len(outs) : outs[i].tag = "raise" THEN Raise(outs[CHOOSE i \in 1..Len(outs) : outs[i].tag = "raise" /\ \A j \in 1..(i-1) : outs[j].tag # "raise"].exc) ELSE Ok([i \in 1..Len(outs) |-> outs[i].val])

parse_scontrol(_s, join_duplicates_with) == LET lines == PySplit(_s, "\n") IN MapOutcomes([i \in 1..Len(lines) |-> parse_scontrol_line(lines[i], join_duplicates_with)])

scontrol_format(_s, join_duplicates_with) == LET lines == PySplit(_s, "\n") IN MapOutcomes([i \in 1..Len(lines) |-> _parse_scontrol_line(lines[i], join_duplicates_with)])

(***************************************************************************)
(* Inputs of the scontrol family: a line is composed from a list of        *)
(* (key, value) pairs; further lines of a text are drawn from TailLines.   *)
(***************************************************************************)
StringsUpTo(chars, n) == UNION {[1..m -> chars] : m \in 0..n}

Keys == {<<"k">>, <<"N", "d">>}

ValChars == {"c", " ", "="}

Values == {v \in StringsUpTo(ValChars, MaxValLen) : Len(v) = 0 \/ v[1] # " "}

PairLists == UNION {[1..n -> Keys \X Values] : n \in 0..MaxPairs}

ComposeLine(pairs) == PyJoin(<<" ">>, [i \in 1..Len(pairs) |-> pairs[i][1] \o <<"=">> \o pairs[i][2]])

TailLines == {<<>>, <<"N", "d", "=", "c">>}

TailDocs == UNION {[1..n -> TailLines] : n \in 0..MaxTailLines}

Separators == {<<",">>, <<";">>}

Line == ComposeLine(input.pairs)

Text == PyJoin(<<"\n">>, <<Line>> \o input.tail)

InitScontrol == /\ input \in [pairs : PairLists, sep : {<<",">>}, tail : {<<>>}]
                /\ op = "init"
                /\ result = NotCalled

TokenizeScontrolLine == /\ op = "init"
                        /\ op' = "tokenize_scontrol_line"
                        /\ result' = Ok(tokenize_scontrol_line(Line))
                        /\ UNCHANGED input

GatherTokenizeScontrolLine == /\ op = "init"
                              /\ op' = "_tokenize_scontrol_line"
                              /\ result' = Ok(_tokenize_scontrol_line(Line))
                              /\ UNCHANGED input

ParseScontrolLine == \E sep \in Separators :
                        /\ op = "init"
                        /\ input' = [input EXCEPT !.sep = sep]
                        /\ op' = "parse_scontrol_line"
                        /\ result' = parse_scontrol_line(Line, sep)

GatherParseScontrolLine == \E sep \in Separators :
                        /\ op = "init"
                        /\ input' = [input EXCEPT !.sep = sep]
                        /\ op' = "_parse_scontrol_line"
                        /\ result' = _parse_scontrol_line(Line, sep)

ParseScontrol == \E sep \in Separators, tail \in TailDocs :
                        /\ op = "init"
                        /\ input' = [input EXCEPT !.sep = sep, !.tail = tail]
                        /\ op' = "parse_scontrol"
                        /\ result' = parse_scontrol(PyJoin(<<"\n">>, <<Line>> \o tail), sep)

ScontrolFormat == \E sep \in Separators, tail \in TailDocs :
                        /\ op = "init"
                        /\ input' = [input EXCEPT !.sep = sep, !.tail = tail]
                        /\ op' = "scontrol_format"
                        /\ result' = scontrol_format(PyJoin(<<"\n">>, <<Line>> \o tail), sep)

NextTokenize == \/ TokenizeScontrolLine
                \/ GatherTokenizeScontrolLine

SpecTokenize == InitScontrol /\ [][NextTokenize]_vars

NextScontrol == \/ ParseScontrolLine
                \/ GatherParseScontrolLine
                \/ ParseScontrol
                \/ ScontrolFormat

SpecScontrol == InitScontrol /\ [][NextScontrol]_vars

(***************************************************************************)
(* src/src/parse.py, src/src/gather/parse.py: delimited (table) text.      *)
(***************************************************************************)
Min(a, b) == IF a < b THEN a ELSE b

\* {k: v for k, v in zip(_keys, _values)} with the keys case-folded
_to_data(_keys, _values) == DictFromItems([j \in 1..Min(Len(_keys), Len(_values)) |-> <<PyCasefold(_keys[j]), _values[j]>>])

\* src/src/parse.py: header and body lines are split on "|", whatever the
\* delimiter argument is.
parse_delimited(_s, delimiter) ==
    LET parts == PySplitMax1(_s, "\n")
    IN IF Len(parts) < 2 THEN Raise("IndexError")
       ELSE LET all_keys == PySplit(parts[1], "|")
                lines == PySplit(parts[2], "\n")
                all_values == [i \in 1..Len(lines) |-> PySplit(lines[i], "|")]
            IN Ok([i \in 1..Len(all_values) |-> _to_data(all_keys, all_values[i])])

\* src/src/gather/parse.py: header and body lines are split on the argument.
delimited_format(_s, delimiter) ==
    LET parts == PySplitMax1(_s, "\n")
    IN IF Len(parts) < 2 THEN Raise("IndexError")
       ELSE LET all_keys == PySplit(parts[1], delimiter)
                lines == PySplit(parts[2], "\n")
                all_values == [i \in 1..Len(lines) |-> PySplit(lines[i], delimiter)]
            IN Ok([i \in 1..Len(all_values) |-> _to_data(all_keys, all_values[i])])

(***************************************************************************)
(* Inputs of the delimited family: a header of column names, body rows of  *)
(* cells and a one-character delimiter; no rows means a text without "\n". *)
(***************************************************************************)
ColumnNames == {<<"I", "d">>, <<"q">>}

Cells == {<<>>, <<"7">>}

Delimiters == {"|", ";"}

Headers == UNION {[1..n -> ColumnNames] : n \in 1..MaxCols}

Rows == UNION {[1..n -> Cells] : n \in 1..MaxCols}

Bodies == UNION {[1..n -> Rows] : n \in 0..MaxRows}

ComposeTable(header, rows, delimiter) == PyJoin(<<"\n">>, <<PyJoin(<<delimiter>>, header)>> \o [i \in 1..Len(rows) |-> PyJoin(<<delimiter>>, rows[i])])

TableText == ComposeTable(input.header, input.rows, input.delimiter)

InitDelimited == /\ input \in [header : Headers, rows : Bodies, delimiter : Delimiters]
                 /\ op = "init"
                 /\ result = NotCalled

ParseDelimited == /\ op = "init"
                  /\ op' = "parse_delimited"
                  /\ result' = parse_delimited(TableText, input.delimiter)
                  /\ UNCHANGED input

DelimitedFormat == /\ op = "init"
                   /\ op' = "delimited_format"
                   /\ result' = delimited_format(TableText, input.delimiter)
                   /\ UNCHANGED input

NextDelimited == \/ ParseDelimited
                 \/ DelimitedFormat

SpecDelimited == InitDelimited /\ [][NextDelimited]_vars

(***************************************************************************)
(* Python int(str): surrounding whitespace is stripped, then an optional    *)
(* sign and decimal digits, single underscores allowed between digits.     *)
(***************************************************************************)
DigitChars == <<"0", "1", "2", "3", "4", "5", "6", "7", "8", "9">>

IsDigit(c) == \E i \in 1..10 : DigitChars[i] = c

DigitValue(c) == (CHOOSE i \in 1..10 : DigitChars[i] = c) - 1

Whitespace == {" ", "\t", "\n", "\r"}

RECURSIVE PyLStrip(_)
PyLStrip(s) == IF Len(s) > 0 /\ s[1] \in Whitespace THEN PyLStrip(Tail(s)) ELSE s

RECURSIVE PyRStrip(_)
PyRStrip(s) == IF Len(s) > 0 /\ s[Len(s)] \in Whitespace THEN PyRStrip(SubSeq(s, 1, Len(s) - 1)) ELSE s

PyStrip(s) == PyRStrip(PyLStrip(s))

Unsigned(t) == IF Len(t) > 0 /\ t[1] \in {"+", "-"} THEN Tail(t) ELSE t

IsIntLiteral(s) ==
    LET body == Unsigned(PyStrip(s))
    IN /\ Len(body) > 0
       /\ \A i \in 1..Len(body) : IsDigit(body[i]) \/ body[i] = "_"
       /\ body[1] # "_"
       /\ body[Len(body)] # "_"
       /\ \A i \in 1..(Len(body) - 1) : ~(body[i] = "_" /\ body[i+1] = "_")

RECURSIVE DigitsValue(_)
DigitsValue(ds) == IF Len(ds) = 0 THEN 0 ELSE IF ds[Len(ds)] = "_" THEN DigitsValue(SubSeq(ds, 1, Len(ds) - 1)) ELSE 10 * DigitsValue(SubSeq(ds, 1, Len(ds) - 1)) + DigitValue(ds[Len(ds)])

IntLiteralValue(s) == LET t == PyStrip(s) IN IF t[1] = "-" THEN 0 - DigitsValue(Unsigned(t)) ELSE DigitsValue(Unsigned(t))

\* int(v) for an optional string v: int(None) raises TypeError.
PyInt(v) == IF v.tag = "none" THEN Raise("TypeError") ELSE IF IsIntLiteral(v.val) THEN Ok(IntLiteralValue(v.val)) ELSE Raise("ValueError")

(***************************************************************************)
(* src/src/interpret/_common.py, _safe_convert.py                          *)
(***************************************************************************)
NA == <<"N", "/", "A">>

NS == <<"n", "/", "s">>

DONT_CARE == <<"*">>

UNLIMITED == <<"U", "N", "L", "I", "M", "I", "T", "E", "D">>

YES == <<"y", "e", "s">>

NO == <<"n", "o">>

any_none(_value) == \E i \in 1..Len(_value) : _value[i].tag = "none"

convert_value_to_bool_safe(_true_v, _false_v, _v) == IF _v = _true_v THEN Ok(TRUE) ELSE IF _v = _false_v THEN Ok(FALSE) ELSE None

convert_value_unsafe_to_safe(_unsafe_v, _safe_v, _v) == IF _v.tag = "none" \/ _v.val = _unsafe_v THEN _safe_v ELSE _v

convert_value_unsafe_to_none(_unsafe_v, _v) == convert_value_unsafe_to_safe(_unsafe_v, None, _v)

\* try: out = int(_v)  except: out = _safe_v
type_cast_value_unsafe_to_safe(_type, _safe_v, _v) == IF _type = "int" /\ PyInt(_v).tag = "ok" THEN PyInt(_v) ELSE _safe_v

type_cast_value_unsafe_to_none(_type, _v) == type_cast_value_unsafe_to_safe(_type, None, _v)

type_cast_int_unsafe_to_none(_v) == type_cast_value_unsafe_to_safe("int", None, _v)

\* Variant of restrict_negative_value_to_safe that also rejects zero.
restrict_nonpositive_value_to_safe(_safe_v, _v) == IF _v.tag = "none" \/ _v.val <= 0 THEN _safe_v ELSE _v

restrict_negative_value_to_safe(_safe_v, _v) == IF _v.tag = "none" \/ _v.val < 0 THEN _safe_v ELSE _v

restrict_negative_value_to_none(_v) == restrict_negative_value_to_safe(None, _v)

clip_negative(_v) == restrict_negative_value_to_safe(Ok(0), _v)

(***************************************************************************)
(* src/src/interpret/decode.py: primitive and composite decoders.          *)
(***************************************************************************)
na_str(_v) == convert_value_unsafe_to_none(NA, Ok(_v))

ns_int(_v) == type_cast_value_unsafe_to_none("int", convert_value_unsafe_to_none(NS, Ok(_v)))

dont_care_int(_v) == restrict_negative_value_to_none(type_cast_value_unsafe_to_none("int", convert_value_unsafe_to_safe(DONT_CARE, None, Ok(_v))))

unlimited_int(_v) == restrict_negative_value_to_none(type_cast_value_unsafe_to_none("int", convert_value_unsafe_to_safe(UNLIMITED, None, Ok(_v))))

yes_no_bool(_v) == convert_value_to_bool_safe(YES, NO, _v)

int_bool(_v) == convert_value_to_bool_safe(<<"0">>, <<"1">>, _v)

delimited_list(_delimiter, _v) == Ok(PySplit(_v, _delimiter))

\* r = _v.split(_separator, maxsplit=1); a missing second part becomes ""
ranged(_separator, _v) == LET r == PySplitMax1(_v, _separator) IN IF Len(r) < 2 THEN Ok(<<r[1], <<>> >>) ELSE Ok(<<r[1], r[2]>>)

RFind(s, c) == IF Contains(s, c) THEN CHOOSE i \in 1..Len(s) : s[i] = c /\ \A j \in (i+1)..Len(s) : s[j] # c ELSE 0

\* Brackets are one-character strings: _v[find(l) + 1 : rfind(r)]
enclosed(_brackets, _v) == IF ~(Len(_v) > 0 /\ _v[1] = _brackets[1] /\ _v[Len(_v)] = _brackets[2]) THEN None ELSE Ok(SubSeq(_v, Find(_v, _brackets[1]) + 1, RFind(_v, _brackets[2]) - 1))

\* v = _v.split(_separator, maxsplit=1); v[1] raises IndexError when absent
separated_key_value(_separator, _v) == LET v == PySplitMax1(_v, _separator) IN IF Len(v) < 2 THEN Raise("IndexError") ELSE Ok(<<v[1], v[2]>>)

comma_separated_list(_v) == delimited_list(",", _v)

comma_separated_key_value_list(_v) == LET out == delimited_list(",", _v).val IN MapOutcomes([i \in 1..Len(out) |-> separated_key_value("=", out[i])])

(***************************************************************************)
(* Inputs of the decoder family: every string over DecodeChars up to       *)
(* MaxStrLen and the literals the decoders treat specially.                *)
(***************************************************************************)
DecodeChars == {"0", "1", "7", "-", "+", "_", " ", ",", "=", "(", ")"}

DecodeLiterals == {NA, NS, DONT_CARE, UNLIMITED, YES, NO, <<"o", "t", "h", "e", "r">>, <<"Y", "e", "s">>}

DecodeInputs == StringsUpTo(DecodeChars, MaxStrLen) \cup DecodeLiterals

ListDelimiters == {",", "="}

RangeSeparators == {"-", ","}

Brackets == {<<"(", ")">>, <<"=", "=">>}

InitDecode == /\ input \in [v : DecodeInputs, arg : {<<>>}]
              /\ op = "init"
              /\ result = NotCalled

Call(name, outcome) == /\ op = "init"
                       /\ op' = name
                       /\ result' = outcome
                       /\ UNCHANGED input

CallWith(name, arg, outcome) == /\ op = "init"
                                /\ op' = name
                                /\ result' = outcome
                                /\ input' = [input EXCEPT !.arg = arg]

NaStr == Call("na_str", na_str(input.v))

NsInt == Call("ns_int", ns_int(input.v))

DontCareInt == Call("dont_care_int", dont_care_int(input.v))

UnlimitedInt == Call("unlimited_int", unlimited_int(input.v))

YesNoBool == Call("yes_no_bool", yes_no_bool(input.v))

IntBool == Call("int_bool", int_bool(input.v))

CommaSeparatedList == Call("comma_separated_list", comma_separated_list(input.v))

CommaSeparatedKeyValueList == Call("comma_separated_key_value_list", comma_separated_key_value_list(input.v))

DelimitedList == \E d \in ListDelimiters : CallWith("delimited_list", <<d>>, delimited_list(d, input.v))

Ranged == \E d \in RangeSeparators : CallWith("ranged", <<d>>, ranged(d, input.v))

Enclosed == \E b \in Brackets : CallWith("enclosed", b, enclosed(b, input.v))

SeparatedKeyValue == \E d \in ListDelimiters : CallWith("separated_key_value", <<d>>, separated_key_value(d, input.v))

NextDecode == \/ NaStr
              \/ NsInt
              \/ DontCareInt
              \/ UnlimitedInt
              \/ YesNoBool
              \/ IntBool
              \/ CommaSeparatedList
              \/ CommaSeparatedKeyValueList
              \/ DelimitedList
              \/ Ranged
              \/ Enclosed
              \/ SeparatedKeyValue

SpecDecode == InitDecode /\ [][NextDecode]_vars

(***************************************************************************)
(* src/src/interpret/data_structures.py                                    *)
(***************************************************************************)
\* f = M(type_cast_int_unsafe_to_none); the MonadicFunction returned by
\* f.lcompose(clip_negative) is discarded, so f is still the plain cast.
ExitCode_f(item) == type_cast_int_unsafe_to_none(Ok(item))

ExitCode_from_string(_v) ==
    LET v0 == delimited_list(":", _v).val
        v == [i \in 1..Len(v0) |-> ExitCode_f(v0[i])]
    IN IF any_none(v) THEN None
       ELSE IF Len(v) < 2 THEN None
       ELSE Ok([exit_code |-> v[1].val, exit_signal |-> v[2].val])

_bsct_style_from_string(_v) ==
    LET v0 == delimited_list(":", _v).val
        v1 == [i \in 1..Len(v0) |-> dont_care_int(v0[i])]
        v == [i \in 1..Len(v1) |-> IF v1[i].tag = "ok" THEN clip_negative(v1[i]) ELSE v1[i]]
    IN IF Len(v) < 4 THEN None ELSE Ok(<<v[1], v[2], v[3], v[4]>>)

NTasksPerNBSC_from_string(_v) == _bsct_style_from_string(_v)

ReqBSCT_from_string(_v) == _bsct_style_from_string(_v)

(***************************************************************************)
(* src/src/interpret/memory.py.  Byte counts exceed 32 bits, so they are   *)
(* kept as little-endian sequences of base-1024 limbs.                     *)
(***************************************************************************)
LimbBase == 1024

RECURSIVE BigFromInt(_)
BigFromInt(n) == IF n = 0 THEN <<>> ELSE <<n % LimbBase>> \o BigFromInt(n \div LimbBase)

BigShift(b, i) == IF Len(b) = 0 THEN b ELSE [j \in 1..i |-> 0] \o b

TEBI == "t"

GIBI == "g"

MEBI == "m"

KIBI == "k"

\* BYTE_CONVERSIONS as exponents of 1024
BYTE_CONVERSIONS == [p \in {TEBI, GIBI, MEBI, KIBI} |-> CASE p = TEBI -> 4 [] p = GIBI -> 3 [] p = MEBI -> 2 [] p = KIBI -> 1]

MEM_PER_CORE == "c"

MEM_PER_NODE == "n"

IsLower(c) == \E i \in 1..26 : LowerLetters[i] = c

RECURSIVE LeadingDigits(_)
LeadingDigits(s) == IF Len(s) > 0 /\ IsDigit(s[1]) THEN 1 + LeadingDigits(Tail(s)) ELSE 0

\* _MEMORY_SPEC_REGEX.match: ([1-9][0-9]*)([a-z])([a-z]) anchored at the
\* start of the string only.
MemorySpecMatches(s) ==
    LET k == LeadingDigits(s)
    IN /\ k >= 1
       /\ s[1] # "0"
       /\ Len(s) >= k + 2
       /\ IsLower(s[k + 1])
       /\ IsLower(s[k + 2])

_convert_memory_to_bytes(_prefix, _prefix_count) ==
    IF _prefix_count.tag = "none" THEN None
    ELSE IF _prefix \notin DOMAIN BYTE_CONVERSIONS THEN None
    ELSE Ok(BigShift(BigFromInt(_prefix_count.val), BYTE_CONVERSIONS[_prefix]))

MemorySpec_from_string(_v) ==
    IF ~MemorySpecMatches(_v) THEN None
    ELSE LET k == LeadingDigits(_v)
             si_count == PyInt(Ok(SubSeq(_v, 1, k)))
             si_prefix == _v[k + 1]
             multiplier_count_code == _v[k + 2]
             byte_count == _convert_memory_to_bytes(si_prefix, si_count)
         IN IF si_count.tag # "ok" THEN None
            ELSE IF byte_count.tag = "none" THEN None
            ELSE Ok([_multiplier_count_code |-> multiplier_count_code, _byte_per_multiplier_count |-> byte_count.val, _si_prefix |-> si_prefix])

(***************************************************************************)
(* src/src/interpret/node.py (strings without line breaks)                 *)
(***************************************************************************)
RECURSIVE TrailingDigits(_)
TrailingDigits(s) == IF Len(s) > 0 /\ IsDigit(s[Len(s)]) THEN 1 + TrailingDigits(SubSeq(s, 1, Len(s) - 1)) ELSE 0

Max(a, b) == IF a > b THEN a ELSE b

\* _NODE_SPEC_REGEX.match: (.+?)([0-9]+)$ -- the shortest non-empty prefix
\* followed by digits up to the end.
NodeSpecMatches(s) == Len(s) >= 2 /\ TrailingDigits(s) >= 1

NodeSpecPrefixLen(s) == Max(1, Len(s) - TrailingDigits(s))

\* [lo-hi] starting at position i: "[", digits, "-", digits, "]"
RangeAt(s, i) ==
    LET d1 == LeadingDigits(SubSeq(s, i + 1, Len(s)))
        d2 == LeadingDigits(SubSeq(s, i + d1 + 2, Len(s)))
    IN /\ i <= Len(s)
       /\ s[i] = "["
       /\ d1 >= 1
       /\ i + d1 + 1 <= Len(s)
       /\ s[i + d1 + 1] = "-"
       /\ d2 >= 1
       /\ i + d1 + d2 + 2 <= Len(s)
       /\ s[i + d1 + d2 + 2] = "]"

\* _NODE_SPEC_RANGE_REGEX.match: (.+?)\[([0-9]+)-([0-9]+)\] -- the shortest
\* non-empty prefix followed by a bracketed range; the rest is ignored.
NodeSpecRangeMatches(s) == \E i \in 2..Len(s) : RangeAt(s, i)

NodeSpecRangeStart(s) == CHOOSE i \in 2..Len(s) : RangeAt(s, i) /\ \A j \in 2..(i - 1) : ~RangeAt(s, j)

_from_parts(prefix, lo, hi) == [_prefix |-> prefix, _digits |-> Max(Len(lo), Len(hi)), _range |-> <<IntLiteralValue(lo), IntLiteralValue(hi)>>]

_NodeSpec_from_string(_v) ==
    IF NodeSpecMatches(_v)
    THEN LET n == NodeSpecPrefixLen(_v)
             value == SubSeq(_v, n + 1, Len(_v))
         IN Ok(_from_parts(SubSeq(_v, 1, n), value, value))
    ELSE IF NodeSpecRangeMatches(_v)
    THEN LET i == NodeSpecRangeStart(_v)
             d1 == LeadingDigits(SubSeq(_v, i + 1, Len(_v)))
             d2 == LeadingDigits(SubSeq(_v, i + d1 + 2, Len(_v)))
         IN Ok(_from_parts(SubSeq(_v, 1, i - 1), SubSeq(_v, i + 1, i + d1), SubSeq(_v, i + d1 + 2, i + d1 + d2 + 1)))
    ELSE None

NodeList_from_string(_v) ==
    LET tokens == delimited_list(",", _v).val
        node_specs == [i \in 1..Len(tokens) |-> _NodeSpec_from_string(tokens[i])]
    IN IF any_none(node_specs) THEN None ELSE Ok([i \in 1..Len(node_specs) |-> node_specs[i].val])

(***************************************************************************)
(* src/src/interpret/decode.py: CommaHyphenIntRangeList                    *)
(***************************************************************************)
\* one iteration of the loop over range_strings
RangeOfStrings(range_str) ==
    LET v0 == PyInt(Ok(range_str[1]))
        v1 == PyInt(Ok(range_str[2]))
    IN IF v0.tag = "ok" /\ v1.tag = "ok" THEN Ok(<<v0.val, v1.val>>)
       ELSE IF v0.tag = "ok" THEN Ok(<<v0.val, v0.val>>)
       ELSE IF v1.tag = "ok" THEN Ok(<<v1.val, v1.val>>)
       ELSE None

CommaHyphenIntRangeList_from_string(_v) ==
    LET items == delimited_list(",", _v).val
        range_strings == [i \in 1..Len(items) |-> ranged("-", items[i])]
        ranges == [i \in 1..Len(range_strings) |-> RangeOfStrings(range_strings[i].val)]
    IN IF any_none(range_strings) THEN None
       ELSE IF any_none(ranges) THEN None
       ELSE Ok([i \in 1..Len(ranges) |-> ranges[i].val])

(***************************************************************************)
(* src/src/interpret/tres.py.  The values of a TresSpec are tagged with    *)
(* their Python type: "dict" (gres), "list" or "int" (an optional int).    *)
(***************************************************************************)
_GRES == <<"g", "r", "e", "s">>

_LISTS == {<<"b", "b">>, <<"f", "s">>, <<"i", "c">>, <<"l", "i", "c", "e", "n", "s", "e">>}

_NUMERICS == {<<"b", "i", "l", "l", "i", "n", "g">>, <<"c", "p", "u">>, <<"e", "n", "e", "r", "g", "y">>, <<"m", "e", "m">>, <<"n", "o", "d", "e">>, <<"p", "a", "g", "e", "s">>, <<"v", "m", "e", "m">>}

StartsWith(s, prefix) == Len(s) >= Len(prefix) /\ SubSeq(s, 1, Len(prefix)) = prefix

\* k.split("/", maxsplit=1)[-1]
LastOfSplitMax1(k, d) == PySplitMax1(k, d)[Len(PySplitMax1(k, d))]

TresValue(type, val) == [type |-> type, val |-> val]

\* The loop of from_string over the items of parts still to be read.  gres
\* and the lists are stored in tres_parts by reference, so tres_parts shows
\* every later update of them.
RECURSIVE TresLoop(_, _)
TresLoop(parts, tres_parts) ==
    IF Len(parts) = 0 THEN Ok(tres_parts)
    ELSE LET k == parts[1][1]
             v == parts[1][2]
         IN IF StartsWith(k, _GRES)
            THEN LET gres_key == LastOfSplitMax1(k, "/")
                     gres_value == IF PyInt(Ok(v)).tag = "ok" THEN PyInt(Ok(v)) ELSE None
                     gres == IF DictHas(tres_parts, _GRES) THEN DictGet(tres_parts, _GRES).val ELSE <<>>
                 IN TresLoop(Tail(parts), DictSet(tres_parts, _GRES, TresValue("dict", DictSet(gres, gres_key, gres_value))))
            ELSE IF k \in _LISTS
            THEN LET old == IF DictHas(tres_parts, k) THEN Append(DictGet(tres_parts, k).val, v) ELSE <<>>
                 IN TresLoop(Tail(parts), DictSet(tres_parts, k, TresValue("list", Append(old, v))))
            ELSE IF k \in _NUMERICS
            THEN LET curr_v == IF DictHas(tres_parts, k) THEN DictGet(tres_parts, k).val ELSE Ok(0)
                     numeric == IF curr_v.tag = "ok" /\ PyInt(Ok(v)).tag = "ok" THEN Ok(curr_v.val + PyInt(Ok(v)).val) ELSE None
                 IN TresLoop(Tail(parts), DictSet(tres_parts, k, TresValue("int", numeric)))
            ELSE Raise("AssertionError")

TresSpec_from_string(_v) ==
    LET tokens == delimited_list(",", _v).val
        token_parts == MapOutcomes([i \in 1..Len(tokens) |-> separated_key_value("=", tokens[i])])
    IN IF token_parts.tag = "raise" THEN token_parts
       ELSE TresLoop(DictFromItems([i \in 1..Len(tokens) |-> <<PyCasefold(token_parts.val[i][1]), token_parts.val[i][2]>>]), <<>>)

(***************************************************************************)
(* Inputs of the domain value types: every string over TypeChars up to     *)
(* MaxTypeLen, and comma-joined lists of up to MaxTresTokens TRES tokens.  *)
(***************************************************************************)
TypeChars == {"0", "1", "-", ":", "*", ",", "=", "[", "]", "c", "g", "n"}

TresTokens == {<<>>, <<"c", "p", "u">>, <<"c", "p", "u", "=", "1">>, <<"c", "p", "u", "=", "x">>, <<"C", "p", "u", "=", "2">>, <<"m", "e", "m", "=", "7">>, <<"g", "r", "e", "s", "/", "g", "p", "u", "=", "1">>, <<"g", "r", "e", "s", "=", "1">>, <<"l", "i", "c", "e", "n", "s", "e", "=", "a">>, <<"f", "o", "o", "=", "1">>}

TresInputs == {PyJoin(<<",">>, ts) : ts \in UNION {[1..n -> TresTokens] : n \in 1..MaxTresTokens}}

TypeLiterals == {<<"0", ":", "*", ":", "*", ":", "1">>, <<"1", ":", "2", ":", "3", ":", "4", ":", "5">>, <<"*", ":", "*", ":", "*", ":", "-", "1">>, <<"1", "2", "g", "n">>, <<"8", "m", "c">>, <<"8", "g", "x">>, <<"8", "x", "n">>, <<"0", "8", "g", "n">>, <<"c", "0", "1">>, <<"c", "[", "0", "1", "-", "1", "0", "]">>, <<"c", "[", "1", "-", "2", "]", "3">>, <<"a", "b", "[", "1", "-", "2", "]", ",", "c", "7">>}

TypeInputs == StringsUpTo(TypeChars, MaxTypeLen) \cup TresInputs \cup TypeLiterals

InitTypes == /\ input \in [v : TypeInputs, arg : {<<>>}]
             /\ op = "init"
             /\ result = NotCalled

ExitCodeFromString == Call("ExitCode.from_string", ExitCode_from_string(input.v))

NTasksPerNBSCFromString == Call("NTasksPerNBSC.from_string", NTasksPerNBSC_from_string(input.v))

ReqBSCTFromString == Call("ReqBSCT.from_string", ReqBSCT_from_string(input.v))

MemorySpecFromString == Call("MemorySpec.from_string", MemorySpec_from_string(input.v))

NodeListFromString == Call("NodeList.from_string", NodeList_from_string(input.v))

CommaHyphenIntRangeListFromString == Call("CommaHyphenIntRangeList.from_string", CommaHyphenIntRangeList_from_string(input.v))

TresSpecFromString == Call("TresSpec.from_string", TresSpec_from_string(input.v))

NextTypes == \/ ExitCodeFromString
             \/ NTasksPerNBSCFromString
             \/ ReqBSCTFromString
             \/ MemorySpecFromString
             \/ NodeListFromString
             \/ CommaHyphenIntRangeListFromString
             \/ TresSpecFromString

SpecTypes == InitTypes /\ [][NextTypes]_vars

(***************************************************************************)
(* Python str(int), and the call of a method on the object a from_string   *)
(* returned: input.arg holds self followed by the further arguments.       *)
(***************************************************************************)
RECURSIVE NatDigits(_)
NatDigits(n) == IF n < 10 THEN <<DigitChars[n + 1]>> ELSE Append(NatDigits(n \div 10), DigitChars[(n % 10) + 1])

PyStr(n) == IF n < 0 THEN <<"-">> \o NatDigits(0 - n) ELSE NatDigits(n)

\* str(v) of an optional int inside an f-string: None is rendered "None"
PyStrOptional(v) == IF v.tag = "none" THEN <<"N", "o", "n", "e">> ELSE PyStr(v.val)

Method(name, from, args, outcome) == /\ op = from
                                     /\ result.tag = "ok"
                                     /\ op' = name
                                     /\ result' = outcome
                                     /\ input' = [input EXCEPT !.arg = <<result.val>> \o args]

U8_MAX == 256

U16_MAX == 65536

(***************************************************************************)
(* src/src/interpret/data_structures.py: ExitCode.__str__ and the exit     *)
(* code strings f"{code}:{signal}" of the round-trip test, extended by a   *)
(* negative component.                                                     *)
(***************************************************************************)
\* Variant of ExitCode_str that writes the signal first.
ExitCode_str_swapped(self) == PyStr(self.exit_signal) \o <<":">> \o PyStr(self.exit_code)

ExitCode_str(self) == PyStr(self.exit_code) \o <<":">> \o PyStr(self.exit_signal)

MinExitValue == 0 - 1

MaxExitValue == 11

ExitValues == (MinExitValue..MaxExitValue) \cup {100, U8_MAX}

exit_code_strings(code, signal) == PyStr(code) \o <<":">> \o PyStr(signal)

InitExitCode == \E code \in ExitValues, signal \in ExitValues :
                    /\ input = [code |-> code, signal |-> signal, v |-> exit_code_strings(code, signal), arg |-> <<>>]
                    /\ op = "init"
                    /\ result = NotCalled

ExitCodeStr == Method("ExitCode.__str__", "ExitCode.from_string", <<>>, Ok(ExitCode_str(result.val)))

NextExitCode == \/ ExitCodeFromString
                \/ ExitCodeStr

SpecExitCode == InitExitCode /\ [][NextExitCode]_vars

(***************************************************************************)
(* src/src/interpret/data_structures.py: the task tuples' __str__ and the  *)
(* strings f"{b}:{s}:{c}:{t}" of the round-trip test.                      *)
(***************************************************************************)
\* Variant of _to_bsct_style_string that formats None like any other item.
_to_bsct_style_string_plain(_v) == PyJoin(<<":">>, [i \in 1..Len(_v) |-> PyStrOptional(_v[i])])

_to_bsct_style_string(_v) == PyJoin(<<":">>, [i \in 1..Len(_v) |-> IF _v[i].tag = "none" THEN DONT_CARE ELSE PyStr(_v[i].val)])

NTasksPerNBSC_str(self) == _to_bsct_style_string(<<self[1], self[2], self[3], self[4]>>)

ReqBSCT_str(self) == _to_bsct_style_string(<<self[1], self[2], self[3], self[4]>>)

MaxSlotValue == 2

dont_care_integers == {None} \cup {Ok(n) : n \in (0..MaxSlotValue) \cup {10, U16_MAX}}

SlotString(slot) == IF slot.tag = "none" THEN DONT_CARE ELSE PyStr(slot.val)

bsct_style_strings(slots) == SlotString(slots[1]) \o <<":">> \o SlotString(slots[2]) \o <<":">> \o SlotString(slots[3]) \o <<":">> \o SlotString(slots[4])

InitTaskTuple == \E slots \in [1..4 -> dont_care_integers] :
                    /\ input = [slots |-> slots, v |-> bsct_style_strings(slots), arg |-> <<>>]
                    /\ op = "init"
                    /\ result = NotCalled

NTasksPerNBSCStr == Method("NTasksPerNBSC.__str__", "NTasksPerNBSC.from_string", <<>>, Ok(NTasksPerNBSC_str(result.val)))

ReqBSCTStr == Method("ReqBSCT.__str__", "ReqBSCT.from_string", <<>>, Ok(ReqBSCT_str(result.val)))

NextTaskTuple == \/ NTasksPerNBSCFromString
                 \/ ReqBSCTFromString
                 \/ NTasksPerNBSCStr
                 \/ ReqBSCTStr

SpecTaskTuple == InitTaskTuple /\ [][NextTaskTuple]_vars

(***************************************************************************)
(* src/src/interpret/memory.py: MemorySpec.__call__ and __str__ on limb    *)
(* sequences, and the strings f"{si_count}{si_prefix}{multiplier_code}" of *)
(* the round-trip test, extended by a letter outside either vocabulary.    *)
(***************************************************************************)
\* k * b for a small non-negative int k
RECURSIVE BigScaleCarry(_, _, _)
BigScaleCarry(b, k, carry) == IF Len(b) = 0 THEN BigFromInt(carry) ELSE <<(b[1] * k + carry) % LimbBase>> \o BigScaleCarry(Tail(b), k, (b[1] * k + carry) \div LimbBase)

BigScale(b, k) == IF k = 0 THEN <<>> ELSE BigScaleCarry(b, k, 0)

\* b // 1024^i
BigFloorDiv(b, i) == SubSeq(b, i + 1, Len(b))

RECURSIVE BigToInt(_)
BigToInt(b) == IF Len(b) = 0 THEN 0 ELSE b[1] + LimbBase * BigToInt(Tail(b))

\* Variant of MemorySpec_call that multiplies by core_count whatever the
\* multiplier code is.
MemorySpec_call_per_core(self, core_count, node_count) == Ok(BigScale(self._byte_per_multiplier_count, core_count))

MemorySpec_call(self, core_count, node_count) ==
    IF self._multiplier_count_code = MEM_PER_CORE THEN Ok(BigScale(self._byte_per_multiplier_count, core_count))
    ELSE IF self._multiplier_count_code = MEM_PER_NODE THEN Ok(BigScale(self._byte_per_multiplier_count, node_count))
    ELSE Raise("AssertionError")

\* Variant of MemorySpec_str that writes the multiplier code before the
\* prefix.
MemorySpec_str_code_first(self) == Ok(PyStr(BigToInt(BigFloorDiv(self._byte_per_multiplier_count, BYTE_CONVERSIONS[self._si_prefix]))) \o <<self._multiplier_count_code, self._si_prefix>>)

MemorySpec_str(self) ==
    IF self._si_prefix \notin DOMAIN BYTE_CONVERSIONS THEN Raise("KeyError")
    ELSE Ok(PyStr(BigToInt(BigFloorDiv(self._byte_per_multiplier_count, BYTE_CONVERSIONS[self._si_prefix]))) \o <<self._si_prefix, self._multiplier_count_code>>)

MaxMemCount == 8

MaxMultiplier == 4

positive_u16_integers == (1..MaxMemCount) \cup {12, 1023, 1024, U16_MAX}

MULTIPLIER_COUNT_CODES == {MEM_PER_CORE, MEM_PER_NODE}

memory_spec_strings(si_count, si_prefix, multiplier_code) == PyStr(si_count) \o <<si_prefix, multiplier_code>>

InitMemory == \E si_count \in positive_u16_integers, si_prefix \in DOMAIN BYTE_CONVERSIONS \cup {"x"}, multiplier_code \in MULTIPLIER_COUNT_CODES \cup {"x"} :
                 /\ input = [count |-> si_count, prefix |-> si_prefix, code |-> multiplier_code, v |-> memory_spec_strings(si_count, si_prefix, multiplier_code), arg |-> <<>>]
                 /\ op = "init"
                 /\ result = NotCalled

MemorySpecStr == Method("MemorySpec.__str__", "MemorySpec.from_string", <<>>, MemorySpec_str(result.val))

MemorySpecCall == \E core_count \in 0..MaxMultiplier, node_count \in 0..MaxMultiplier :
                     Method("MemorySpec.__call__", "MemorySpec.from_string", <<core_count, node_count>>, MemorySpec_call(result.val, core_count, node_count))

NextMemory == \/ MemorySpecFromString
              \/ MemorySpecStr
              \/ MemorySpecCall

SpecMemory == InitMemory /\ [][NextMemory]_vars

(***************************************************************************)
(* src/src/interpret/node.py: __str__ of _NodeSpec and NodeList, and the   *)
(* comma-joined node tokens of the round-trip test.                        *)
(***************************************************************************)
\* f"{n:0{d}d}" for n >= 0
PyFormatZeroPad(n, d) == [i \in 1..(d - Min(d, Len(PyStr(n)))) |-> "0"] \o PyStr(n)

\* Variant of _NodeSpec_str that writes the numbers without zero padding.
_NodeSpec_str_unpadded(self) ==
    IF self._range[2] - self._range[1] = 0
    THEN self._prefix \o PyStr(self._range[1])
    ELSE self._prefix \o <<"[">> \o PyStr(self._range[1]) \o <<"-">> \o PyStr(self._range[2]) \o <<"]">>

_NodeSpec_str(self) ==
    LET lo == self._range[1]
        hi == self._range[2]
        d == self._digits
    IN IF hi - lo = 0
       THEN self._prefix \o PyFormatZeroPad(lo, d)
       ELSE self._prefix \o <<"[">> \o PyFormatZeroPad(lo, d) \o <<"-">> \o PyFormatZeroPad(hi, d) \o <<"]">>

NodeList_str(self) == PyJoin(<<",">>, [i \in 1..Len(self) |-> _NodeSpec_str(self[i])])

MaxNodeTokens == 2

MaxNodeValue == 1

prefix_strings == {<<"c">>, <<"A", "b">>}

u16_integers == (0..MaxNodeValue) \cup {10, U16_MAX}

node_spec_single_strings(prefix, value) == prefix \o PyFormatZeroPad(value, 5)

node_spec_range_strings(prefix, lo, hi) == prefix \o <<"[">> \o PyFormatZeroPad(lo, 5) \o <<"-">> \o PyFormatZeroPad(hi, 5) \o <<"]">>

\* a token with lo = hi is a single node, one with lo < hi a range
node_spec_strings(token) == IF token.lo = token.hi THEN node_spec_single_strings(token.prefix, token.lo) ELSE node_spec_range_strings(token.prefix, token.lo, token.hi)

NodeTokens == {t \in [prefix : prefix_strings, lo : u16_integers, hi : u16_integers] : t.lo <= t.hi}

node_list_strings(tokens) == PyJoin(<<",">>, [i \in 1..Len(tokens) |-> node_spec_strings(tokens[i])])

InitNodeList == \E tokens \in UNION {[1..n -> NodeTokens] : n \in 1..MaxNodeTokens} :
                   /\ input = [tokens |-> tokens, v |-> node_list_strings(tokens), arg |-> <<>>]
                   /\ op = "init"
                   /\ result = NotCalled

NodeListStr == Method("NodeList.__str__", "NodeList.from_string", <<>>, Ok(NodeList_str(result.val)))

NextNodeList == \/ NodeListFromString
                \/ NodeListStr

SpecNodeList == InitNodeList /\ [][NextNodeList]_vars

(***************************************************************************)
(* src/src/interpret/tres.py: TresSpec.__str__, and TRES strings composed  *)
(* of key=value tokens.                                                    *)
(***************************************************************************)
\* Variant of _format_gres_key that joins with ":".
_format_gres_key_colon(k, dk) == k \o <<":">> \o dk

_format_gres_key(k, dk) == k \o <<"/">> \o dk

_format_gres_item(k, dk, dv) == _format_gres_key(k, dk) \o <<"=">> \o PyStrOptional(dv)

_format_gres(k, d) == PyJoin(<<",">>, [i \in 1..Len(d) |-> _format_gres_item(k, d[i][1], d[i][2])])

_format_list_values(v) == PyJoin(<<",">>, v)

_format_list(k, v) == k \o <<"=">> \o _format_list_values(v)

TresSpec_str(self) ==
    PyJoin(<<",">>, [i \in 1..Len(self) |->
        LET k == self[i][1]
            v == self[i][2]
        IN IF k = _GRES THEN _format_gres(k, v.val)
           ELSE IF v.type = "list" THEN _format_list(k, v.val)
           ELSE k \o <<"=">> \o PyStrOptional(v.val)])

MaxTresItems == 3

TresItem(k, v) == [key |-> k, value |-> v]

TresItems == {TresItem(<<"c", "p", "u">>, <<"1">>), TresItem(<<"c", "p", "u">>, <<"2">>), TresItem(<<"C", "p", "u">>, <<"4">>), TresItem(<<"m", "e", "m">>, <<"2">>),
              TresItem(<<"g", "r", "e", "s", "/", "g", "p", "u">>, <<"3">>), TresItem(<<"g", "r", "e", "s", "/", "t", "p", "u">>, <<"1">>),
              TresItem(<<"l", "i", "c", "e", "n", "s", "e">>, <<"\"", "a", "n", "s", "y", "s", "\"">>), TresItem(<<"l", "i", "c", "e", "n", "s", "e">>, <<"b">>), TresItem(<<"b", "b">>, <<"x", "=", "y">>),
              TresItem(<<"f", "o", "o">>, <<"1">>), TresItem(<<"g", "r", "e", "s", "f", "o", "o">>, <<"1">>)}

\* the string of TresSpecTest.test_roundtrip
TresTestItems == <<TresItem(<<"c", "p", "u">>, <<"1">>), TresItem(<<"m", "e", "m">>, <<"2">>), TresItem(<<"g", "r", "e", "s", "/", "g", "p", "u">>, <<"3">>), TresItem(<<"l", "i", "c", "e", "n", "s", "e">>, <<"\"", "a", "n", "s", "y", "s", "\"">>)>>

TresString(items) == PyJoin(<<",">>, [i \in 1..Len(items) |-> items[i].key \o <<"=">> \o items[i].value])

InitTres == \E items \in UNION {[1..n -> TresItems] : n \in 1..MaxTresItems} \cup {TresTestItems} :
               /\ input = [items |-> items, v |-> TresString(items), arg |-> <<>>]
               /\ op = "init"
               /\ result = NotCalled

TresSpecStr == Method("TresSpec.__str__", "TresSpec.from_string", <<>>, Ok(TresSpec_str(result.val)))

NextTres == \/ TresSpecFromString
            \/ TresSpecStr

SpecTres == InitTres /\ [][NextTres]_vars

(***************************************************************************)
(* src/src/parse.py: hyphenated ranges and comma-separated lists of them.  *)
(***************************************************************************)
\* list(range(lo, stop))
PyRange(lo, stop) == [i \in 1..(IF stop > lo THEN stop - lo ELSE 0) |-> lo + i - 1]

\* Variant of hyphenated_range_to_list whose range stops before the second
\* value (range(values[0], values[1])).
hyphenated_range_to_list_exclusive(_s) ==
    LET parts == PySplit(_s, "-")
    IN IF Len(parts) < 2 THEN <<>>
       ELSE IF PyInt(Ok(parts[1])).tag # "ok" \/ PyInt(Ok(parts[2])).tag # "ok" THEN <<>>
       ELSE PyRange(PyInt(Ok(parts[1])).val, PyInt(Ok(parts[2])).val)

\* parts[1] raises IndexError inside the try when there is no "-"
hyphenated_range_to_list(_s) ==
    LET parts == PySplit(_s, "-")
    IN IF Len(parts) < 2 THEN <<>>
       ELSE IF PyInt(Ok(parts[1])).tag # "ok" \/ PyInt(Ok(parts[2])).tag # "ok" THEN <<>>
       ELSE PyRange(PyInt(Ok(parts[1])).val, PyInt(Ok(parts[2])).val + 1)

\* the loop of hyphenated_csl_to_list over the parts still to be read
RECURSIVE CslLoop(_, _)
CslLoop(parts, out) ==
    IF Len(parts) = 0 THEN out
    ELSE LET values == IF Contains(parts[1], "-") THEN hyphenated_range_to_list(parts[1])
                       ELSE IF PyInt(Ok(parts[1])).tag = "ok" THEN <<PyInt(Ok(parts[1])).val>>
                       ELSE <<>>
         IN CslLoop(Tail(parts), out \o values)

hyphenated_csl_to_list(_s) == IF _s = <<>> THEN <<>> ELSE CslLoop(PySplit(_s, ","), <<>>)

MaxHyphenLen == 4

HyphenChars == {"0", "1", "3", "-", ",", "a"}

HyphenLiterals == {<<"1", ",", "3", "-", "6", ",", "7", ",", "8">>, <<"0", "-", "0", "-", "1">>, <<"1", "0", "-", "1", "2">>, <<"0", "-", "0", "-", ",">>}

InitHyphen == /\ input \in [v : StringsUpTo(HyphenChars, MaxHyphenLen) \cup HyphenLiterals, arg : {<<>>}]
              /\ op = "init"
              /\ result = NotCalled

HyphenatedRangeToList == Call("hyphenated_range_to_list", Ok(hyphenated_range_to_list(input.v)))

HyphenatedCslToList == Call("hyphenated_csl_to_list", Ok(hyphenated_csl_to_list(input.v)))

NextHyphen == \/ HyphenatedRangeToList
              \/ HyphenatedCslToList

SpecHyphen == InitHyphen /\ [][NextHyphen]_vars

(***************************************************************************)
(* src/src/interpret/time.py.  A timedelta is its normalised (days,         *)
(* seconds) pair; \d is taken over the ASCII digits.                        *)
(***************************************************************************)
\* dt.timedelta(days=, hours=, minutes=, seconds=): normalised to days and
\* 0 <= seconds < 86400, OverflowError beyond +-999999999 days.
PyTimedelta(days, hours, minutes, seconds) ==
    LET rest == (hours % 24) * 3600 + (minutes % 1440) * 60 + (seconds % 86400)
        d == days + (hours \div 24) + (minutes \div 1440) + (seconds \div 86400) + (rest \div 86400)
    IN IF d > 999999999 \/ d < 0 - 999999999 THEN Raise("OverflowError")
       ELSE Ok([days |-> d, seconds |-> rest % 86400])

AllDigits(s) == \A i \in 1..Len(s) : IsDigit(s[i])

\* (?P<..>\d{2})
TwoDigits(s) == Len(s) = 2 /\ AllDigits(s)

\* "$" also matches before one trailing line break.
DollarBody(s) == IF Len(s) > 0 /\ s[Len(s)] = "\n" THEN SubSeq(s, 1, Len(s) - 1) ELSE s

\* The first of _DURATION_REGEX that matches decides which units the
\* two-digit fields are: M, M:S, H:M:S, D-H, D-H:M, D-H:M:S.
duration_timedelta(_v) ==
    LET body == DollarBody(_v)
        dashed == Contains(body, "-")
        days == IF dashed THEN SubSeq(body, 1, Find(body, "-") - 1) ELSE <<"0">>
        clock == PySplit(IF dashed THEN SubSeq(body, Find(body, "-") + 1, Len(body)) ELSE body, ":")
        n == Len(clock)
        f == [i \in 1..n |-> DigitsValue(clock[i])]
    IN IF ~(Len(days) > 0 /\ AllDigits(days) /\ n <= 3 /\ \A i \in 1..n : TwoDigits(clock[i])) THEN None
       ELSE IF dashed THEN PyTimedelta(DigitsValue(days), f[1], IF n >= 2 THEN f[2] ELSE 0, IF n >= 3 THEN f[3] ELSE 0)
       ELSE IF n = 1 THEN PyTimedelta(0, 0, f[1], 0)
       ELSE IF n = 2 THEN PyTimedelta(0, 0, f[1], f[2])
       ELSE PyTimedelta(0, f[1], f[2], f[3])

\* try: return dt.timedelta(seconds=int(_v))  except: return None
seconds_timedelta(_v) ==
    IF PyInt(Ok(_v)).tag # "ok" THEN None
    ELSE IF PyTimedelta(0, 0, 0, PyInt(Ok(_v)).val).tag # "ok" THEN None
    ELSE PyTimedelta(0, 0, 0, PyInt(Ok(_v)).val)

minutes_timedelta(_v) ==
    IF PyInt(Ok(_v)).tag # "ok" THEN None
    ELSE IF PyTimedelta(0, 0, PyInt(Ok(_v)).val, 0).tag # "ok" THEN None
    ELSE PyTimedelta(0, 0, PyInt(Ok(_v)).val, 0)

\* A strptime field of one or two digits with a value in lo..hi; %d also
\* takes a space in front of one digit.
StrptimeField(s, lo, hi, spaced) ==
    LET t == IF spaced /\ Len(s) = 2 /\ s[1] = " " THEN Tail(s) ELSE s
    IN /\ Len(t) \in {1, 2}
       /\ AllDigits(t)
       /\ DigitsValue(t) >= lo
       /\ DigitsValue(t) <= hi

StrptimeValue(s) == IF Len(s) = 2 /\ s[1] = " " THEN DigitsValue(Tail(s)) ELSE DigitsValue(s)

IsLeapYear(y) == y % 4 = 0 /\ (y % 100 # 0 \/ y % 400 = 0)

DaysInMonth(y, m) == IF m = 2 THEN (IF IsLeapYear(y) THEN 29 ELSE 28) ELSE IF m \in {4, 6, 9, 11} THEN 30 ELSE 31

\* _TIMEPOINT_FORMAT_STRING = "%Y-%m-%dT%H:%M:%S", matched ignoring case
_TIMEPOINT_FORMAT_MATCH(_v) ==
    LET halves == PySplit(PyCasefold(_v), "t")
        date == PySplit(halves[1], "-")
        clock == PySplit(halves[2], ":")
    IN /\ Len(halves) = 2
       /\ Len(date) = 3
       /\ Len(clock) = 3
       /\ Len(date[1]) = 4
       /\ AllDigits(date[1])
       /\ StrptimeField(date[2], 1, 12, FALSE)
       /\ StrptimeField(date[3], 1, 31, TRUE)
       /\ StrptimeField(clock[1], 0, 23, FALSE)
       /\ StrptimeField(clock[2], 0, 59, FALSE)
       /\ StrptimeField(clock[3], 0, 61, FALSE)

\* try: return dt.datetime.strptime(_v, _TIMEPOINT_FORMAT_STRING)
\* except: return None      (datetime rejects year 0, day 30 of February, ...)
timepoint_datetime(_v) ==
    IF ~_TIMEPOINT_FORMAT_MATCH(_v) THEN None
    ELSE LET halves == PySplit(PyCasefold(_v), "t")
             date == PySplit(halves[1], "-")
             clock == PySplit(halves[2], ":")
             year == DigitsValue(date[1])
             month == StrptimeValue(date[2])
             day == StrptimeValue(date[3])
             second == StrptimeValue(clock[3])
         IN IF year < 1 \/ day > DaysInMonth(year, month) \/ second > 59 THEN None
            ELSE Ok([year |-> year, month |-> month, day |-> day, hour |-> StrptimeValue(clock[1]), minute |-> StrptimeValue(clock[2]), second |-> second])

(***************************************************************************)
(* src/src/functional.py, src/src/interpret/mapping.py: the field-name      *)
(* mapping tables.  An entry names its decoder; "None" stands for the       *)
(* _WRITE_ONLY and _NOT_IMPLEMENTED markers, which are not callable.        *)
(***************************************************************************)
noop(_v) == None

_ignore(_v) == None

_WRITE_ONLY == "None"

_NOT_IMPLEMENTED == "None"

\* The body of GresSpec.from_string ends without a return statement.
GresSpec_from_string(_v) == None

\* float(str) for strings without ".", an exponent or the words inf / nan:
\* the float of the integer literal.
PyFloat(v) == IF v.tag = "none" THEN Raise("TypeError") ELSE IF IsIntLiteral(v.val) THEN Ok([float |-> IntLiteralValue(v.val)]) ELSE Raise("ValueError")

type_cast_float_unsafe_to_none(_v) == IF PyFloat(_v).tag = "ok" THEN PyFloat(_v) ELSE None

_convert_mbytes_to_bytes(_v) == _convert_memory_to_bytes(MEBI, _v)

\* A negative count gives a negative product, kept as sign and magnitude.
memory_mbytes_to_bytes(_v) ==
    LET out == type_cast_int_unsafe_to_none(Ok(_v))
    IN IF out.tag = "ok" /\ out.val < 0 THEN Ok([negative |-> _convert_mbytes_to_bytes(Ok(0 - out.val)).val])
       ELSE _convert_mbytes_to_bytes(out)

from_scontrol_jobs_show ==
    <<
    <<"allocnode:sid", "_ignore">>, <<"batchflag", "_ignore">>,
    <<"exitcode", "ExitCode.from_string">>, <<"groupid", "noop">>, <<"jobstate", "noop">>,
    <<"nodelistindices", "_ignore">>, <<"ntaskspern:b:s:c", "NTasksPerNBSC.from_string">>,
    <<"preempteligibletime", "timepoint_datetime">>, <<"preempttime", "timepoint_datetime">>,
    <<"presustime", "timepoint_datetime">>, <<"reason", "noop">>,
    <<"reqb:s:c:t", "ReqBSCT.from_string">>, <<"secspresuspend", "seconds_timedelta">>,
    <<"socks/node", "dont_care_int">>, <<"submittime", "timepoint_datetime">>,
    <<"suspendtime", "timepoint_datetime">>
    >>

from_scontrol_jobs_update ==
    <<
    <<"account", "noop">>, <<"admincomment", "noop">>, <<"arraytaskthrottle", _WRITE_ONLY>>,
    <<"burstbuffer", _WRITE_ONLY>>, <<"clusters", _WRITE_ONLY>>, <<"clusterfeatures", _WRITE_ONLY>>,
    <<"comment", "noop">>, <<"contiguous", "int_bool">>, <<"corespec", "int">>,
    <<"cpuspertask", "int">>, <<"deadline", "timepoint_datetime">>,
    <<"delayboot", "duration_timedelta">>, <<"dependency", _NOT_IMPLEMENTED>>,
    <<"eligibletime", "timepoint_datetime">>, <<"endtime", "timepoint_datetime">>,
    <<"excnodelist", "NodeList.from_string">>, <<"extra", "noop">>, <<"features", "noop">>,
    <<"gres", _NOT_IMPLEMENTED>>, <<"gres_idx", _NOT_IMPLEMENTED>>, <<"jobid", "int">>,
    <<"licenses", _WRITE_ONLY>>, <<"mailtype", "noop">>, <<"mailuser", "noop">>,
    <<"mincpusnode", "int">>, <<"minmemorycpu", _NOT_IMPLEMENTED>>,
    <<"minmemorynode", _NOT_IMPLEMENTED>>, <<"mintmpdisknode", "memory_mbytes_to_bytes">>,
    <<"timemin", "duration_timedelta">>, <<"jobname", "noop">>, <<"name", _WRITE_ONLY>>,
    <<"nice", "int">>, <<"numcpus", _NOT_IMPLEMENTED>>, <<"numnodes", _NOT_IMPLEMENTED>>,
    <<"numtasks", "int">>, <<"oversubscribe", _NOT_IMPLEMENTED>>, <<"partition", "noop">>,
    <<"prefer", _WRITE_ONLY>>, <<"priority", "int">>, <<"qos", "noop">>, <<"reboot", "int_bool">>,
    <<"reqcores", "int">>, <<"reqnodelist", "NodeList.from_string">>,
    <<"reqnodes", _NOT_IMPLEMENTED>>, <<"reqprocs", "int">>, <<"reqsockets", _WRITE_ONLY>>,
    <<"reqthreads", _WRITE_ONLY>>, <<"requeue", "int_bool">>, <<"reservationname", "noop">>,
    <<"resetaccruetime", _WRITE_ONLY>>, <<"sitefactor", "int">>, <<"stderr", "noop">>,
    <<"stdin", "noop">>, <<"stdout", "noop">>, <<"shared", _NOT_IMPLEMENTED>>,
    <<"starttime", "timepoint_datetime">>, <<"switches", _NOT_IMPLEMENTED>>,
    <<"wait-for-switch", "seconds_timedelta">>, <<"taskspernode", _WRITE_ONLY>>,
    <<"threadspec", "int">>, <<"timelimit", "duration_timedelta">>, <<"userid", "str">>,
    <<"wckey", "str">>, <<"workdir", "noop">>
    >>

from_scontrol_node_show ==
    <<
    <<"allocmem", "memory_mbytes_to_bytes">>, <<"cpuload", "type_cast_float_unsafe_to_none">>,
    <<"cpuspeclist", _NOT_IMPLEMENTED>>, <<"freemem", "memory_mbytes_to_bytes">>,
    <<"lastbusytime", "timepoint_datetime">>, <<"memspeclimit", "memory_mbytes_to_bytes">>,
    <<"realmemory", "memory_mbytes_to_bytes">>, <<"state", "noop">>, <<"currentwatts", "ns_int">>,
    <<"lowestjoules", "ns_int">>, <<"consumedjoules", "ns_int">>, <<"extsensorsjoules", "ns_int">>,
    <<"extsensorswatts", "ns_int">>, <<"extsensorstemp", "ns_int">>
    >>

from_scontrol_node_update ==
    <<
    <<"nodename", "noop">>, <<"activefeatures", "noop">>, <<"availablefeatures", "noop">>,
    <<"comment", "noop">>, <<"cpubind", "noop">>, <<"extra", "noop">>,
    <<"gres", "GresSpec.from_string">>, <<"nodeaddr", _NOT_IMPLEMENTED>>,
    <<"nodehostname", "noop">>, <<"reason", "noop">>, <<"resumeafter", "seconds_timedelta">>,
    <<"state", "noop">>
    >>

from_scontrol_partition_update ==
    <<
    <<"allocnodes", "NodeList.from_string">>, <<"allowaccounts", "comma_separated_list">>,
    <<"allowgroups", "comma_separated_list">>, <<"allowqos", "comma_separated_list">>,
    <<"alternate", "noop">>, <<"cpubind", "noop">>, <<"default", "yes_no_bool">>,
    <<"defaulttime", "duration_timedelta">>, <<"defmempercpu", "mb_to_bytes">>,
    <<"defmempernode", "mb_to_bytes">>, <<"denyaccounts", "comma_separated_list">>,
    <<"denyqos", "comma_separated_list">>, <<"disablerootjobs", "yes_no_bool">>,
    <<"exclusiveuser", "yes_no_bool">>, <<"gracetime", "seconds_timedelta">>,
    <<"hidden", "yes_no_bool">>, <<"jobdefaults", "comma_separated_key_value_list">>,
    <<"maxcpuspernode", "type_cast_int_unsafe_to_none">>, <<"lln", "yes_no_bool">>,
    <<"maxmempercpu", "mb_to_bytes">>, <<"maxmempernode", "mb_to_bytes">>,
    <<"maxnodes", "type_cast_int_unsafe_to_none">>, <<"maxtime", "duration_timedelta">>,
    <<"minnodes", "type_cast_int_unsafe_to_none">>,
    <<"maxcpuspersocket", "type_cast_int_unsafe_to_none">>, <<"nodes", "NodeList.from_string">>,
    <<"oversubscribe", "noop">>, <<"overtimelimit", "minutes_timedelta">>,
    <<"partitionname", "noop">>, <<"powerdownonidle", "noop">>, <<"preemptmode", "noop">>,
    <<"priority", "type_cast_int_unsafe_to_none">>,
    <<"priorityjobfactor", "type_cast_int_unsafe_to_none">>,
    <<"prioritytier", "type_cast_int_unsafe_to_none">>, <<"qos", "noop">>,
    <<"reqresv", "yes_no_bool">>, <<"rootonly", "yes_no_bool">>, <<"shared", "noop">>,
    <<"state", "noop">>, <<"tresbillingweights", _NOT_IMPLEMENTED>>
    >>

from_sacctmgr_qos_show ==
    <<
    <<"description", "noop">>, <<"gracetime", "duration_timedelta">>,
    <<"grpjobs", "type_cast_int_unsafe_to_none">>,
    <<"grpjobsaccrue", "type_cast_int_unsafe_to_none">>,
    <<"grpsubmit", "type_cast_int_unsafe_to_none">>,
    <<"grpsubmitjobs", "type_cast_int_unsafe_to_none">>, <<"grptres", "TresSpec.from_string">>,
    <<"grptresmins", "TresSpec.from_string">>, <<"grpwall", "duration_timedelta">>,
    <<"limitfactor", "type_cast_float_unsafe_to_none">>,
    <<"maxjobsaccruepa", "type_cast_int_unsafe_to_none">>,
    <<"maxjobsaccrueperaccount", "type_cast_int_unsafe_to_none">>,
    <<"maxjobsaccruepu", "type_cast_int_unsafe_to_none">>,
    <<"maxjobsaccrueperuser", "type_cast_int_unsafe_to_none">>,
    <<"maxjobspa", "type_cast_int_unsafe_to_none">>,
    <<"maxjobsperaccount", "type_cast_int_unsafe_to_none">>,
    <<"maxjobspu", "type_cast_int_unsafe_to_none">>,
    <<"maxjobsperuser", "type_cast_int_unsafe_to_none">>, <<"maxtresmins", "minutes_timedelta">>,
    <<"maxtres", "TresSpec.from_string">>, <<"maxtresperjob", "TresSpec.from_string">>,
    <<"maxtrespernode", "TresSpec.from_string">>, <<"maxtrespu", "TresSpec.from_string">>,
    <<"maxtresperuser", "TresSpec.from_string">>,
    <<"maxsubmitjobspa", "type_cast_int_unsafe_to_none">>,
    <<"maxsubmitjobsperaccount", "type_cast_int_unsafe_to_none">>,
    <<"maxsubmitjobspu", "type_cast_int_unsafe_to_none">>,
    <<"maxsubmitjobsperuser", "type_cast_int_unsafe_to_none">>, <<"maxwall", "duration_timedelta">>,
    <<"maxwalldurationperjob", "duration_timedelta">>,
    <<"minpriothreshold", "type_cast_int_unsafe_to_none">>, <<"mintres", "TresSpec.from_string">>,
    <<"name", "noop">>, <<"preempt", "comma_separated_list">>, <<"preemptmode", "noop">>,
    <<"priority", "type_cast_int_unsafe_to_none">>,
    <<"usagefactor", "type_cast_float_unsafe_to_none">>
    >>

MappingTables == [from_scontrol_jobs_show |-> from_scontrol_jobs_show, from_scontrol_jobs_update |-> from_scontrol_jobs_update, from_scontrol_node_show |-> from_scontrol_node_show, from_scontrol_node_update |-> from_scontrol_node_update, from_scontrol_partition_update |-> from_scontrol_partition_update, from_sacctmgr_qos_show |-> from_sacctmgr_qos_show]

\* mb_to_bytes has a signature and no body in the source: its entries stay
\* in the tables and are not applied.
Callables == {"noop", "_ignore", "int", "str", "ExitCode.from_string", "NTasksPerNBSC.from_string", "ReqBSCT.from_string", "NodeList.from_string", "GresSpec.from_string", "TresSpec.from_string", "comma_separated_list", "comma_separated_key_value_list", "yes_no_bool", "int_bool", "ns_int", "dont_care_int", "type_cast_int_unsafe_to_none", "type_cast_float_unsafe_to_none", "memory_mbytes_to_bytes", "duration_timedelta", "seconds_timedelta", "minutes_timedelta", "timepoint_datetime"}

\* decoder(_v) for the decoder an entry names
ApplyEntry(decoder, _v) ==
    CASE decoder = "noop" -> noop(_v)
      [] decoder = "_ignore" -> _ignore(_v)
      [] decoder = "int" -> PyInt(Ok(_v))
      [] decoder = "str" -> Ok(_v)
      [] decoder = "ExitCode.from_string" -> ExitCode_from_string(_v)
      [] decoder = "NTasksPerNBSC.from_string" -> NTasksPerNBSC_from_string(_v)
      [] decoder = "ReqBSCT.from_string" -> ReqBSCT_from_string(_v)
      [] decoder = "NodeList.from_string" -> NodeList_from_string(_v)
      [] decoder = "GresSpec.from_string" -> GresSpec_from_string(_v)
      [] decoder = "TresSpec.from_string" -> TresSpec_from_string(_v)
      [] decoder = "comma_separated_list" -> comma_separated_list(_v)
      [] decoder = "comma_separated_key_value_list" -> comma_separated_key_value_list(_v)
      [] decoder = "yes_no_bool" -> yes_no_bool(_v)
      [] decoder = "int_bool" -> int_bool(_v)
      [] decoder = "ns_int" -> ns_int(_v)
      [] decoder = "dont_care_int" -> dont_care_int(_v)
      [] decoder = "type_cast_int_unsafe_to_none" -> type_cast_int_unsafe_to_none(Ok(_v))
      [] decoder = "type_cast_float_unsafe_to_none" -> type_cast_float_unsafe_to_none(Ok(_v))
      [] decoder = "memory_mbytes_to_bytes" -> memory_mbytes_to_bytes(_v)
      [] decoder = "duration_timedelta" -> duration_timedelta(_v)
      [] decoder = "seconds_timedelta" -> seconds_timedelta(_v)
      [] decoder = "minutes_timedelta" -> minutes_timedelta(_v)
      [] decoder = "timepoint_datetime" -> timepoint_datetime(_v)

(***************************************************************************)
(* Inputs of the mapping tables: a table, one of its keys and a raw value:  *)
(* every string over MappingChars up to MaxRawLen and the literals the      *)
(* decoders treat specially.                                               *)
(***************************************************************************)
MaxRawLen == 2

MappingChars == {"0", "1", "-", ":", "a"}

MappingLiterals == {<<"N", "/", "A">>, <<"(", "n", "u", "l", "l", ")">>, <<"R", "U", "N", "N", "I", "N", "G">>, <<"y", "e", "s">>, <<"n", "o">>, <<"n", "/", "s">>, <<"*">>,
    <<"1", "_", "0">>, <<" ", "5">>, <<"8", "6", "4", "0", "0">>, <<"-", "8", "6", "4", "0", "1">>,
    <<"0", ":", "0">>, <<"1", ":", "2", ":", "3", ":", "4">>, <<"c", "[", "1", "-", "2", "]", ",", "d">>, <<"c", "p", "u", "=", "1", ",", "m", "e", "m", "=", "2">>, <<"c", "p", "u">>, <<"a", "=", "b">>,
    <<"0", "1", ":", "0", "2", ":", "0", "3">>, <<"9", "9", ":", "9", "9", ":", "9", "9">>, <<"2", "-", "0", "3", ":", "0", "4", ":", "0", "5">>, <<"1", "-", "0", "1", ":", "0", "2">>,
    <<"9", "9", "9", "9", "9", "9", "9", "9", "9", "-", "0", "0">>, <<"9", "9", "9", "9", "9", "9", "9", "9", "9", "-", "2", "4">>, <<"1", "0", "0", "0", "0", "0", "0", "0", "0", "0", "-", "0", "0">>,
    <<"2", "0", "2", "3", "-", "0", "1", "-", "0", "2", "T", "0", "3", ":", "0", "4", ":", "0", "5">>, <<"2", "0", "2", "3", "-", "1", "-", " ", "2", "t", "3", ":", "4", ":", "5">>,
    <<"2", "0", "2", "3", "-", "0", "2", "-", "2", "9", "T", "0", "0", ":", "0", "0", ":", "0", "0">>, <<"2", "0", "2", "4", "-", "0", "2", "-", "2", "9", "T", "0", "0", ":", "0", "0", ":", "0", "0">>,
    <<"2", "0", "2", "3", "-", "0", "1", "-", "0", "2", "T", "0", "3", ":", "0", "4", ":", "6", "0">>, <<"0", "0", "0", "0", "-", "0", "1", "-", "0", "2", "T", "0", "3", ":", "0", "4", ":", "0", "5">>}

MappingInputs == StringsUpTo(MappingChars, MaxRawLen) \cup MappingLiterals

MappingEntries == {<<t, k>> : t \in DOMAIN MappingTables, k \in UNION {KeySet(MappingTables[t]) : t \in DOMAIN MappingTables}}

InitMapping == /\ input \in [v : MappingInputs, arg : {e \in MappingEntries : DictHas(MappingTables[e[1]], e[2]) /\ DictGet(MappingTables[e[1]], e[2]) \in Callables}]
               /\ op = "init"
               /\ result = NotCalled

\* table[key](raw value)
ApplyTable(name) == /\ input.arg[1] = name
                    /\ Call(name, ApplyEntry(DictGet(MappingTables[name], input.arg[2]), input.v))

FromScontrolJobsShow == ApplyTable("from_scontrol_jobs_show")

FromScontrolJobsUpdate == ApplyTable("from_scontrol_jobs_update")

FromScontrolNodeShow == ApplyTable("from_scontrol_node_show")

FromScontrolNodeUpdate == ApplyTable("from_scontrol_node_update")

FromScontrolPartitionUpdate == ApplyTable("from_scontrol_partition_update")

FromSacctmgrQosShow == ApplyTable("from_sacctmgr_qos_show")

NextMapping == \/ FromScontrolJobsShow
               \/ FromScontrolJobsUpdate
               \/ FromScontrolNodeShow
               \/ FromScontrolNodeUpdate
               \/ FromScontrolPartitionUpdate
               \/ FromSacctmgrQosShow

SpecMapping == InitMapping /\ [][NextMapping]_vars

(***************************************************************************)
(* src/src/parse.py: parse_slurm_duration_as_hours.  The float arithmetic   *)
(* is exact on the explored values, so it is done on integers.             *)
(***************************************************************************)
\* (\d{2}):(\d{2}):(\d{2}) at the start of t
DurationClockMatches(t) ==
    /\ Len(t) >= 8
    /\ \A i \in {1, 2, 4, 5, 7, 8} : IsDigit(t[i])
    /\ t[3] = ":"
    /\ t[6] = ":"

\* DURATION_REGEX.match with the optional group (\d+)- taking part
DurationMatchesWithDays(_d) ==
    LET k == LeadingDigits(_d)
    IN /\ k >= 1
       /\ Len(_d) >= k + 1
       /\ _d[k + 1] = "-"
       /\ DurationClockMatches(SubSeq(_d, k + 2, Len(_d)))

\* DURATION_REGEX.match with the optional group left out: group("days") is None
DurationMatchesWithoutDays(_d) == ~DurationMatchesWithDays(_d) /\ DurationClockMatches(_d)

CONVERSION_TO_SECONDS == <<86400, 3600, 60, 1>>

parse_slurm_duration_as_hours(_d) ==
    IF DurationMatchesWithDays(_d)
    THEN LET k == LeadingDigits(_d)
             values == <<DigitsValue(SubSeq(_d, 1, k)), DigitsValue(SubSeq(_d, k + 2, k + 3)), DigitsValue(SubSeq(_d, k + 5, k + 6)), DigitsValue(SubSeq(_d, k + 8, k + 9))>>
             seconds == values[1] * CONVERSION_TO_SECONDS[1] + values[2] * CONVERSION_TO_SECONDS[2] + values[3] * CONVERSION_TO_SECONDS[3] + values[4] * CONVERSION_TO_SECONDS[4]
         IN Ok(seconds \div 3600)
    \* float(d.group("days")) is float(None): TypeError, caught by "except"
    ELSE IF DurationMatchesWithoutDays(_d) THEN Ok(0 - 1)
    ELSE Ok(0 - 1)

(***************************************************************************)
(* Inputs of the duration function: an optional day part, three fields      *)
(* joined by ":" and the strings of the unit test.                          *)
(***************************************************************************)
MaxDurationDays == 2

DurationDayParts == {<<>>, <<"-">>, <<"x", "1", "-">>, <<"1", "0", "-">>} \cup {PyStr(d) \o <<"-">> : d \in 0..MaxDurationDays}

DurationFields == {<<>>, <<"1">>, <<"0", "0">>, <<"0", "1">>, <<"0", "2">>, <<"0", "3">>, <<"5", "9">>, <<"0", "3", "0">>}

DurationLiterals == {<<>>, <<"0">>, <<"1">>, <<"-">>, <<":">>, <<"1", "-", "0", "1", ":">>, <<"1", "-", "0", "1", ":", "0", "2", ":">>, <<" ", "0", "1", ":", "0", "2", ":", "0", "3">>}

DurationInputs == {d \o hh \o <<":">> \o mm \o <<":">> \o ss : d \in DurationDayParts, hh \in DurationFields, mm \in DurationFields, ss \in DurationFields} \cup DurationLiterals

InitDuration == /\ input \in [v : DurationInputs, arg : {<<>>}]
                /\ op = "init"
                /\ result = NotCalled

ParseSlurmDurationAsHours == Call("parse_slurm_duration_as_hours", parse_slurm_duration_as_hours(input.v))

NextDuration == ParseSlurmDurationAsHours

SpecDuration == InitDuration /\ [][NextDuration]_vars

(***************************************************************************)
(* src/src/table.py: Table.  A table is the record of its attributes; a     *)
(* row of input data is a dict from column name to cell value.             *)
(***************************************************************************)
Table___init__(_columns, _values, na_value) ==
    LET column_count == Len(_columns)
        row_count == IF column_count = 0 THEN 0 ELSE Len(_values)
    IN [_na |-> na_value, _columns |-> _columns, _values |-> _values, _row_count |-> row_count, _column_count |-> Len(_columns)]

Table_shape(self) == <<self._row_count, self._column_count>>

Table_height(self) == self._row_count

Table_width(self) == self._column_count

Table_size(self) == self._row_count * self._column_count

Table_columns(self) == self._columns

Table_values(self) == self._values

\* [key for row in _data for key in row.keys() if not (key in seen or seen.add(key))]
RECURSIVE FirstSeenKeys(_, _)
FirstSeenKeys(keys, seen) ==
    IF Len(keys) = 0 THEN <<>>
    ELSE IF \E i \in 1..Len(seen) : seen[i] = keys[1] THEN FirstSeenKeys(Tail(keys), seen)
    ELSE <<keys[1]>> \o FirstSeenKeys(Tail(keys), Append(seen, keys[1]))

RECURSIVE AllRowKeys(_)
AllRowKeys(_data) == IF Len(_data) = 0 THEN <<>> ELSE DictKeys(_data[1]) \o AllRowKeys(Tail(_data))

\* _data[row_index].get(key, na_value)
PyDictGetDefault(d, key, default) == IF DictHas(d, key) THEN DictGet(d, key) ELSE default

Table_from_rows(_data, na_value) ==
    LET keys == FirstSeenKeys(AllRowKeys(_data), <<>>)
        row_count == Len(_data)
        table == [row_index \in 1..row_count |-> [k \in 1..Len(keys) |-> PyDictGetDefault(_data[row_index], keys[k], na_value)]]
    IN Table___init__(keys, table, na_value)

(***************************************************************************)
(* Inputs of the table: up to MaxTableRows rows, each with up to            *)
(* MaxRowKeys distinct keys of TableKeys in any order; the cell of row i    *)
(* under the n-th key of TableKeys is the number 10 * i + n.               *)
(***************************************************************************)
MaxTableRows == 3

MaxRowKeys == 2

TableKeys == <<"a", "b", "c", "d">>

TableKeyLists == {ks \in UNION {[1..n -> 1..Len(TableKeys)] : n \in 0..MaxRowKeys} : \A i, j \in 1..Len(ks) : i # j => ks[i] # ks[j]}

TableRow(i, ks) == [n \in 1..Len(ks) |-> <<TableKeys[ks[n]], 10 * i + ks[n]>>]

TableData == UNION {{[i \in 1..h |-> TableRow(i, kss[i])] : kss \in [1..h -> TableKeyLists]} : h \in 0..MaxTableRows}

NA_VALUES == {".", ""}

InitTable == /\ input \in [v : TableData, na_value : NA_VALUES, arg : {<<>>}]
             /\ op = "init"
             /\ result = NotCalled

TableFromRows == Call("Table.from_rows", Ok(Table_from_rows(input.v, input.na_value)))

TableShape == Method("Table.shape", "Table.from_rows", <<>>, Ok(Table_shape(result.val)))

TableHeight == Method("Table.height", "Table.from_rows", <<>>, Ok(Table_height(result.val)))

TableWidth == Method("Table.width", "Table.from_rows", <<>>, Ok(Table_width(result.val)))

TableSize == Method("Table.size", "Table.from_rows", <<>>, Ok(Table_size(result.val)))

TableColumns == Method("Table.columns", "Table.from_rows", <<>>, Ok(Table_columns(result.val)))

TableValues == Method("Table.values", "Table.from_rows", <<>>, Ok(Table_values(result.val)))

NextTable == \/ TableFromRows
             \/ TableShape
             \/ TableHeight
             \/ TableWidth
             \/ TableSize
             \/ TableColumns
             \/ TableValues

SpecTable == InitTable /\ [][NextTable]_vars

(***************************************************************************)
(* src/parse.py, src/load.py: parse_scontrol, the character-level reverse   *)
(* scanner.  While a call runs, result holds its local variables (tag       *)
(* "running") and pc is the statement it is at: "for" (the loop over the    *)
(* lines) or "while" (the loop over the characters of one line).  A         *)
(* DataFrame is its column names and its rows of cells.                     *)
(***************************************************************************)
PARSE_PARSE_SCONTROL == "parse.parse_scontrol"

LOAD_PARSE_SCONTROL == "load.parse_scontrol"

Running(frame) == [tag |-> "running", val |-> frame, exc |-> ""]

IsRunning == result.tag = "running"

\* The position of the first occurrence of old in s, 0 if there is none.
FindSub(s, old) == IF \E i \in 1..(Len(s) - Len(old) + 1) : SubSeq(s, i, i + Len(old) - 1) = old THEN CHOOSE i \in 1..(Len(s) - Len(old) + 1) : SubSeq(s, i, i + Len(old) - 1) = old /\ \A j \in 1..(i - 1) : SubSeq(s, j, j + Len(old) - 1) # old ELSE 0

\* s.replace(old, "", 1)
PyRemoveFirst(s, old) == IF Len(old) = 0 \/ FindSub(s, old) = 0 THEN s ELSE SubSeq(s, 1, FindSub(s, old) - 1) \o SubSeq(s, FindSub(s, old) + Len(old), Len(s))

\* d.pop(k, None)
DictPop(d, k) == LET Keep(e) == e[1] # k IN SelectSeq(d, Keep)

\* Variant of EmitCondition that never emits at the end of the input.
EmitConditionSpaceOnly(name, c, line, equals_hit) == c = " " /\ equals_hit

\* src/parse.py: if (c == " " or not line) and equals_hit
\* src/load.py:  if c == " " and equals_hit
EmitCondition(name, c, line, equals_hit) ==
    IF name = PARSE_PARSE_SCONTROL THEN (c = " " \/ Len(line) = 0) /\ equals_hit
    ELSE c = " " /\ equals_hit

\* src/parse.py: the field is stripped before it is removed from the value
\* and the values of a repeated field are collected in a list.
EmitParse(line_data, field, value) ==
    LET field_s == PyStrip(PyReversed(field))
        value_s == PyStrip(PyRemoveFirst(PyRemoveFirst(PyReversed(value), field_s), <<"=">>))
    IN IF DictHas(line_data, field_s) THEN DictSet(line_data, field_s, Append(DictGet(line_data, field_s), value_s))
       ELSE DictSet(line_data, field_s, <<value_s>>)

\* src/load.py: the field is removed as accumulated, then both are stripped
\* and a repeated field is overwritten.
EmitLoad(line_data, field, value) ==
    LET field_s == PyReversed(field)
        value_s == PyRemoveFirst(PyRemoveFirst(PyReversed(value), field_s), <<"=">>)
    IN DictSet(line_data, PyStrip(field_s), PyStrip(value_s))

Emit(name, line_data, field, value) == IF name = PARSE_PARSE_SCONTROL THEN EmitParse(line_data, field, value) ELSE EmitLoad(line_data, field, value)

\* One pass of the body of "while line:".
WhileBodyFrame(name, f) ==
    LET c == f.line[Len(f.line)]
        line == SubSeq(f.line, 1, Len(f.line) - 1)
        value == Append(f.value, c)
        field == IF c = "=" THEN <<>> ELSE Append(f.field, c)
        equals_hit == f.equals_hit \/ c = "="
    IN IF EmitCondition(name, c, line, equals_hit)
       THEN [f EXCEPT !.c = c, !.line = line, !.line_data = Emit(name, f.line_data, field, value), !.field = <<>>, !.value = <<>>, !.equals_hit = FALSE]
       ELSE [f EXCEPT !.c = c, !.line = line, !.field = field, !.value = value, !.equals_hit = equals_hit]

\* The statements after the while loop: the record of the line is stored.
LineRecord(name, line_data, sep) ==
    LET d == DictPop(line_data, <<>>)
    IN IF name = PARSE_PARSE_SCONTROL THEN [i \in 1..Len(d) |-> <<d[i][1], PyJoin(sep, d[i][2])>>] ELSE d

NaN == <<"NaN">>

\* pd.DataFrame(all_data): the columns are the keys in first-seen order, a
\* cell a record lacks is NaN; df.fillna("") in src/parse.py.
PyDataFrame(all_data, na) ==
    LET columns == FirstSeenKeys(AllRowKeys(all_data), <<>>)
    IN [columns |-> columns, values |-> [i \in 1..Len(all_data) |-> [k \in 1..Len(columns) |-> PyDictGetDefault(all_data[i], columns[k], na)]]]

(***************************************************************************)
(* Inputs of the scanner: a line of leading tokens without "=", key=value   *)
(* pairs and trailing tokens without "=", joined by spaces, and the further *)
(* lines of the call.                                                      *)
(***************************************************************************)
MaxScanPairs == 2

MaxStrayTokens == 1

ScanKeys == {<<"a">>, <<"N", "d">>}

ScanValues == {<<>>, <<"c", " ", "c">>, <<"c", "=", "c">>}

ScanPairLists == UNION {[1..n -> ScanKeys \X ScanValues] : n \in 0..MaxScanPairs}

StrayTokens == {<<"x">>, <<"N", "d">>}

StrayLists == UNION {[1..n -> StrayTokens] : n \in 0..MaxStrayTokens}

ScanTailLines == {<<>>, << <<"N", "d", "=", "c", " ", "b", "=", "2">> >>}

ScanLine(lead, pairs, trail) == PyJoin(<<" ">>, lead \o [i \in 1..Len(pairs) |-> pairs[i][1] \o <<"=">> \o pairs[i][2]] \o trail)

ScanInputs == {[v |-> ScanLine(lead, pairs, trail), lead |-> lead, pairs |-> pairs, trail |-> trail, tail |-> tail, sep |-> <<",">>, arg |-> <<>>] :
                  lead \in StrayLists, pairs \in ScanPairLists, trail \in StrayLists, tail \in ScanTailLines}

InitScanner == /\ input \in {i \in ScanInputs : Len(i.pairs) = 0 => Len(i.trail) = 0}
               /\ op = "init"
               /\ result = NotCalled

ScannerTokenize == Call("tokenize_scontrol_line", Ok(tokenize_scontrol_line(input.v)))

\* parse_scontrol(lines, sep) is called: all_data = []
ScannerCall == \E name \in {PARSE_PARSE_SCONTROL, LOAD_PARSE_SCONTROL} :
                  Call(name, Running([pc |-> "for", lines |-> <<input.v>> \o input.tail, all_data |-> <<>>, line_data |-> <<>>, line |-> <<>>, field |-> <<>>, value |-> <<>>, equals_hit |-> FALSE, c |-> ""]))

\* for line_s in lines: the locals of the next line are set up
ForNext == /\ IsRunning
           /\ result.val.pc = "for"
           /\ Len(result.val.lines) > 0
           /\ result' = Running([result.val EXCEPT !.pc = "while", !.lines = Tail(result.val.lines), !.line_data = <<>>, !.line = Head(result.val.lines), !.field = <<>>, !.value = <<>>, !.equals_hit = FALSE])
           /\ UNCHANGED <<input, op>>

\* while line: c = line.pop() ...
WhileBody == /\ IsRunning
             /\ result.val.pc = "while"
             /\ Len(result.val.line) > 0
             /\ result' = Running(WhileBodyFrame(op, result.val))
             /\ UNCHANGED <<input, op>>

\* the line is used up: line_data.pop("", None); all_data.append(...)
WhileExit == /\ IsRunning
             /\ result.val.pc = "while"
             /\ Len(result.val.line) = 0
             /\ result' = Running([result.val EXCEPT !.pc = "for", !.all_data = Append(result.val.all_data, LineRecord(op, result.val.line_data, input.sep))])
             /\ UNCHANGED <<input, op>>

\* the lines are used up: the DataFrame is returned
ScannerReturn == /\ IsRunning
                 /\ result.val.pc = "for"
                 /\ Len(result.val.lines) = 0
                 /\ result' = Ok(PyDataFrame(result.val.all_data, IF op = PARSE_PARSE_SCONTROL THEN <<>> ELSE NaN))
                 /\ UNCHANGED <<input, op>>

NextScanner == \/ ScannerTokenize
               \/ ScannerCall
               \/ ForNext
               \/ WhileBody
               \/ WhileExit
               \/ ScannerReturn

SpecScanner == InitScanner /\ [][NextScanner]_vars

(***************************************************************************)
(* src/load.py, src/parse.py: Snapshot.take.  While take() runs, result     *)
(* holds its locals and the pool: pc is the statement the main thread is    *)
(* at, tasks the state of the task submitted for each source, and the       *)
(* worker processes and the pool's result-handler thread take their steps   *)
(* in any order.  The commands' outputs are the input.                      *)
(***************************************************************************)
NODE == "node"

JOB == "job"

_SOURCE_ARGS == << <<NODE, <<"node">> >>, <<JOB, <<"job", "-d">> >> >>

sources == DictKeys(_SOURCE_ARGS)

LOAD_SNAPSHOT_TAKE == "load.Snapshot.take"

PARSE_SNAPSHOT_TAKE == "parse.Snapshot.take"

\* subprocess.run(["scontrol", "-o", "show", source, *flags]).stdout
snapshot_scontrol(args) == DictGet(input.v, args[1])

\* Snapshot._assign(data, source, value): data[source] = value
_assign(data, source, value) == DictSet(data, source, value)

\* callback=lambda x: self._assign(out, source, x): the lambda reads the
\* loop variable of take() when it is called.
CallbackSource(frame, task) == frame.source

InitSnapshot == /\ input \in [v : {<< <<NODE, n>>, <<JOB, j>> >> : n \in {<<"N", "=", "1">>, <<"J", "=", "2">>}, j \in {<<"N", "=", "1">>, <<"J", "=", "2">>}}, arg : {<<>>}]
                /\ op = "init"
                /\ result = NotCalled

\* out = {}; with mp.Pool(process_count) as pool:
LoadTake == Call(LOAD_SNAPSHOT_TAKE, Running([out |-> <<>>, pc |-> "for", source |-> "", todo |-> sources, pool |-> "run", tasks |-> [s \in KeySet(_SOURCE_ARGS) |-> "none"]]))

\* for source in self.sources: pool.apply_async(...)
LoadApplyAsync == /\ op = LOAD_SNAPSHOT_TAKE
                  /\ IsRunning
                  /\ result.val.pc = "for"
                  /\ Len(result.val.todo) > 0
                  /\ result' = Running([result.val EXCEPT !.source = Head(result.val.todo), !.todo = Tail(result.val.todo), !.tasks[Head(result.val.todo)] = "queued"])
                  /\ UNCHANGED <<input, op>>

\* A worker process runs snapshot_scontrol for a queued task: the command
\* exits with 0 and its output is sent back, or RuntimeError is raised.
WorkerRuns == \E s \in KeySet(_SOURCE_ARGS), outcome \in {"returned", "raised"} :
                  /\ op = LOAD_SNAPSHOT_TAKE
                  /\ IsRunning
                  /\ result.val.pool = "run"
                  /\ result.val.tasks[s] = "queued"
                  /\ result' = Running([result.val EXCEPT !.tasks[s] = outcome])
                  /\ UNCHANGED <<input, op>>

\* The result handler calls the callback of a task that returned.
ResultCallback == \E s \in KeySet(_SOURCE_ARGS) :
                  /\ op = LOAD_SNAPSHOT_TAKE
                  /\ IsRunning
                  /\ result.val.pool = "run"
                  /\ result.val.tasks[s] = "returned"
                  /\ result' = Running([result.val EXCEPT !.tasks[s] = "assigned", !.out = _assign(result.val.out, CallbackSource(result.val, s), snapshot_scontrol(DictGet(_SOURCE_ARGS, s)))])
                  /\ UNCHANGED <<input, op>>

\* The with block is left: Pool.__exit__ calls terminate(), which stops the
\* workers and the result handler.
LoadPoolExit == /\ op = LOAD_SNAPSHOT_TAKE
                /\ IsRunning
                /\ result.val.pc = "for"
                /\ Len(result.val.todo) = 0
                /\ result' = Running([result.val EXCEPT !.pc = "assign", !.pool = "terminated"])
                /\ UNCHANGED <<input, op>>

\* self._data = out; take() returns
LoadTakeReturn == /\ op = LOAD_SNAPSHOT_TAKE
                  /\ IsRunning
                  /\ result.val.pc = "assign"
                  /\ result' = Ok(result.val.out)
                  /\ UNCHANGED <<input, op>>

\* src/parse.py: func=snapshot_command_output names nothing the module
\* defines or imports, so the first apply_async call raises NameError.
ParseTake == Call(PARSE_SNAPSHOT_TAKE, Raise("NameError"))

NextSnapshot == \/ LoadTake
                \/ LoadApplyAsync
                \/ WorkerRuns
                \/ ResultCallback
                \/ LoadPoolExit
                \/ LoadTakeReturn
                \/ ParseTake

SpecSnapshot == InitSnapshot /\ [][NextSnapshot]_vars

(***************************************************************************)
(* src/src/command.py: run.  The child process is the input: whether the    *)
(* executable is found, its exit code (negative when a signal ended it)     *)
(* and the bytes it wrote; debug is Python's __debug__, without which       *)
(* assert statements are not executed.                                     *)
(***************************************************************************)
RAISE == "raise"

IGNORE == "ignore"

Result___init__(stdout, stderr, returncode) == [_stdout |-> stdout, _stderr |-> stderr, _returncode |-> returncode]

\* bytes.decode("utf-8", "ignore") for ASCII bytes and the byte 255, which
\* is part of no UTF-8 sequence and is left out.
AsciiLetters == [b \in {101, 111} |-> IF b = 101 THEN "e" ELSE "o"]

RECURSIVE PyDecodeUtf8Ignore(_)
PyDecodeUtf8Ignore(bytes) ==
    IF Len(bytes) = 0 THEN <<>>
    ELSE IF Head(bytes) \in DOMAIN AsciiLetters THEN <<AsciiLetters[Head(bytes)]>> \o PyDecodeUtf8Ignore(Tail(bytes))
    ELSE PyDecodeUtf8Ignore(Tail(bytes))

run(process, error_handling, debug) ==
    IF ~process.found THEN Raise("FileNotFoundError")
    ELSE LET returncode == process.returncode
             stderr == PyDecodeUtf8Ignore(process.stderr)
             stdout == PyDecodeUtf8Ignore(process.stdout)
         IN IF error_handling = RAISE /\ 0 < returncode THEN [Raise("RuntimeError") EXCEPT !.val = stderr]
            ELSE IF error_handling = IGNORE THEN Ok(Result___init__(stdout, stderr, returncode))
            ELSE IF debug THEN Raise("AssertionError")
            ELSE Ok(Result___init__(stdout, stderr, returncode))

(***************************************************************************)
(* Inputs of run: exit codes from -MaxSignal to MaxReturnCode, outputs of   *)
(* up to two bytes, the two modes and a string that is neither.            *)
(***************************************************************************)
MaxReturnCode == 2

MaxSignal == 2

ProcessBytes == {<<>>, <<111>>, <<101, 255>>}

Processes == [found : BOOLEAN, returncode : (0 - MaxSignal)..MaxReturnCode, stdout : ProcessBytes, stderr : ProcessBytes]

InitCommand == /\ input \in [v : {p \in Processes : ~p.found => (p.returncode = 0 /\ p.stdout = <<>> /\ p.stderr = <<>>)}, error_handling : {RAISE, IGNORE, "warn"}, debug : BOOLEAN, arg : {<<>>}]
               /\ op = "init"
               /\ result = NotCalled

Run == Call("run", run(input.v, input.error_handling, input.debug))

\* run(args): error_handling takes its default
RunDefault == /\ input.error_handling = RAISE
              /\ Call("run.default", run(input.v, RAISE, input.debug))

NextCommand == \/ Run
               \/ RunDefault

SpecCommand == InitCommand /\ [][NextCommand]_vars

(***************************************************************************)
(* Claims about the record tokenizer (SpecTokenize).                       *)
(***************************************************************************)
TokenizerOps == {"tokenize_scontrol_line", "_tokenize_scontrol_line"}

\* " ".join(k + "=" + v for (k, v) in reversed(tokens))
Recompose(tokens) == ComposeLine(PyReversed(tokens))

\* No space-delimited word of a value other than its first word contains "=".
WellPosedValue(v) == LET words == PySplit(v, " ") IN \A j \in 2..Len(words) : ~Contains(words[j], "=")

WellPosed(pairs) == \A i \in 1..Len(pairs) : WellPosedValue(pairs[i][2])

\* C1: for every line composed of valid key=value pairs (the empty list
\* included), re-joining the reversed token list of the tokenizer with "="
\* inside a pair and " " between pairs gives the line back.
C1_TokenizerRoundTrip == op \in TokenizerOps => (result.tag = "ok" /\ Recompose(result.val) = Line)

\* A line of two pairs whose first value has a later word containing "=":
\* the tokenizer yields three tokens and the line is still recomposed.
C1_Witness == /\ op = "tokenize_scontrol_line"
              /\ Len(input.pairs) = 2
              /\ Len(result.val) = 3
              /\ \E i \in 1..2 : Contains(input.pairs[i][2], " ") /\ Contains(input.pairs[i][2], "=")

\* C2: when no later word of a value contains "=", the tokenizer returns
\* exactly the pairs of the line, last pair first, values unchanged and
\* repeated keys kept as separate pairs.
C2_ExactPairRecovery == (op \in TokenizerOps /\ WellPosed(input.pairs)) => (result.tag = "ok" /\ result.val = PyReversed(input.pairs))

\* Two pairs with the same key, one value with an embedded "=", one with an
\* internal or trailing space.
C2_Witness == /\ op \in TokenizerOps
              /\ WellPosed(input.pairs)
              /\ Len(input.pairs) = 2
              /\ input.pairs[1][1] = input.pairs[2][1]
              /\ input.pairs[1][2] # input.pairs[2][2]
              /\ \E i \in 1..2 : Contains(input.pairs[i][2], "=")
              /\ \E i \in 1..2 : Contains(input.pairs[i][2], " ")
              /\ Len(result.val) = 2

(***************************************************************************)
(* Claims about record assembly (SpecScontrol).                            *)
(***************************************************************************)
RECURSIVE ValuesOf(_, _)
ValuesOf(pairs, k) == IF Len(pairs) = 0 THEN <<>> ELSE (IF pairs[1][1] = k THEN <<pairs[1][2]>> ELSE <<>>) \o ValuesOf(Tail(pairs), k)

LineParserOps == {"parse_scontrol_line", "_parse_scontrol_line"}

\* C3: a field occurring n times in a line is mapped to its n values joined
\* by the separator in the order in which they appear in the line.
C3_DuplicatesJoinedInOrder ==
    (op \in LineParserOps /\ WellPosed(input.pairs) /\ result.tag = "ok") =>
        \A i \in 1..Len(input.pairs) :
              /\ DictHas(result.val, input.pairs[i][1])
              /\ DictGet(result.val, input.pairs[i][1]) = PyJoin(input.sep, ValuesOf(input.pairs, input.pairs[i][1]))

TokenKeys(line) == {t[1] : t \in {tokenize_scontrol_line(line)[i] : i \in 1..Len(tokenize_scontrol_line(line))}}

\* C4: parse_scontrol_line returns, without raising, a mapping whose key set
\* is the set of distinct field names of the line's tokens; parse_scontrol
\* returns one such mapping per line of its text, an empty line giving an
\* empty mapping.
C4_RecordKeysAreTokenKeys ==
    /\ op = "parse_scontrol_line" => (result.tag = "ok" /\ KeySet(result.val) = TokenKeys(Line))
    /\ op = "parse_scontrol" =>
          /\ result.tag = "ok"
          /\ Len(result.val) = 1 + Len(input.tail)
          /\ \A i \in 1..Len(result.val) : KeySet(result.val[i]) = TokenKeys((<<Line>> \o input.tail)[i])

IsCasefolded(k) == k = PyCasefold(k)

\* C5: every field name of every raw record produced from input text, by the
\* scontrol parsers as by the delimited parsers, equals its case-folded form.
C5_FieldNamesCasefolded ==
    /\ (op \in LineParserOps /\ result.tag = "ok") => \A k \in KeySet(result.val) : IsCasefolded(k)
    /\ (op \in {"parse_scontrol", "scontrol_format", "parse_delimited", "delimited_format"} /\ result.tag = "ok") =>
          \A i \in 1..Len(result.val) : \A k \in KeySet(result.val[i]) : IsCasefolded(k)

(***************************************************************************)
(* Claims about delimited text (SpecDelimited).                            *)
(***************************************************************************)
\* C6: parse_delimited splits header and body lines on its delimiter
\* argument and assigns values positionally: one record per body line, and
\* record i maps the case-folded j-th header name to the j-th value of row i
\* for every column j below both the header length and the row length.
C6_DelimitedPositional ==
    (op \in {"parse_delimited", "delimited_format"} /\ Len(input.rows) >= 1) =>
        /\ result.tag = "ok"
        /\ Len(result.val) = Len(input.rows)
        /\ \A i \in 1..Len(input.rows) : \A j \in 1..Min(Len(input.header), Len(input.rows[i])) :
              (\A j2 \in (j+1)..Min(Len(input.header), Len(input.rows[i])) : input.header[j2] # input.header[j]) =>
                  /\ DictHas(result.val[i], PyCasefold(input.header[j]))
                  /\ DictGet(result.val[i], PyCasefold(input.header[j])) = input.rows[i][j]

(***************************************************************************)
(* Claims about the primitive and composite decoders (SpecDecode).         *)
(***************************************************************************)
IsNone(r) == r.tag = "none"

Returns(r, v) == r.tag = "ok" /\ r.val = v

C8_IntBool == op = "int_bool" => IF input.v = <<"0">> THEN Returns(result, FALSE) ELSE IF input.v = <<"1">> THEN Returns(result, TRUE) ELSE IsNone(result)

NeverRaisingDecoders == {"na_str", "ns_int", "dont_care_int", "unlimited_int", "yes_no_bool", "int_bool", "comma_separated_list", "comma_separated_key_value_list", "delimited_list", "ranged", "enclosed"}

\* C9: for every input string each decoder other than separated_key_value
\* returns a value of its documented (optional) type and never raises.
C9_DecodeNeverRaises ==
    /\ op \in NeverRaisingDecoders => result.tag # "raise"
    /\ op \in {"comma_separated_list", "comma_separated_key_value_list", "delimited_list", "ranged"} => result.tag = "ok"
    /\ op \in {"na_str", "ns_int", "dont_care_int", "unlimited_int", "yes_no_bool", "int_bool", "enclosed"} => result.tag \in {"ok", "none"}

(***************************************************************************)
(* Claims about the domain value types (SpecTypes).                        *)
(***************************************************************************)
TotalFromStrings == {"ExitCode.from_string", "NTasksPerNBSC.from_string", "ReqBSCT.from_string", "MemorySpec.from_string", "NodeList.from_string", "CommaHyphenIntRangeList.from_string"}

\* The key of a TRES token: the text before its first "=", case-folded.
TresTokenKey(token) == PyCasefold(PySplitMax1(token, "=")[1])

IsRecognizedTresKey(k) == k \in _LISTS \/ k \in _NUMERICS \/ (StartsWith(k, _GRES \o <<"/">>) /\ Len(k) > 5)

NoUnrecognizedTresKey(v) == \A i \in 1..Len(PySplit(v, ",")) : IsRecognizedTresKey(TresTokenKey(PySplit(v, ",")[i]))

\* C10: every from_string is total and signals failure only by returning
\* None: for any input string the from_string of ExitCode, NTasksPerNBSC,
\* ReqBSCT, MemorySpec, NodeList and CommaHyphenIntRangeList returns None or
\* a value and never raises, and so does TresSpec.from_string on every input
\* without an unrecognized resource key, tokens lacking "=" included.
C10_FromStringTotal ==
    /\ op \in TotalFromStrings => result.tag \in {"ok", "none"}
    /\ (op = "TresSpec.from_string" /\ NoUnrecognizedTresKey(input.v)) => result.tag \in {"ok", "none"}

(***************************************************************************)
(* Claims about ExitCode (SpecExitCode).                                   *)
(***************************************************************************)
CanonicalExitInput == input.code \in 0..U8_MAX /\ input.signal \in 0..U8_MAX

\* C11: for integers c and s in 0..256 written in canonical decimal,
\* ExitCode.from_string(f"{c}:{s}") is an ExitCode with exit_code = c and
\* exit_signal = s, and its str() is the string it was parsed from.
C11_ExitCodeRoundTrip ==
    /\ (op = "ExitCode.from_string" /\ CanonicalExitInput) => result = Ok([exit_code |-> input.code, exit_signal |-> input.signal])
    /\ (op = "ExitCode.__str__" /\ CanonicalExitInput) =>
          /\ input.arg[1] = [exit_code |-> input.code, exit_signal |-> input.signal]
          /\ result = Ok(input.v)
          /\ result.val = exit_code_strings(input.code, input.signal)

\* "256:10" has been parsed and written back.
C11_Witness == /\ op = "ExitCode.__str__"
               /\ input.code = U8_MAX
               /\ input.signal = 10
               /\ result.val = <<"2", "5", "6", ":", "1", "0">>

\* C12: every ExitCode returned by ExitCode.from_string has exit_code >= 0
\* and exit_signal >= 0; a negative component never reaches the ExitCode.
C12_ExitCodeNonNegative == (op = "ExitCode.from_string" /\ result.tag = "ok") => (result.val.exit_code >= 0 /\ result.val.exit_signal >= 0)

(***************************************************************************)
(* Claims about the task tuples (SpecTaskTuple).                           *)
(***************************************************************************)
TaskTupleFromStrings == {"NTasksPerNBSC.from_string", "ReqBSCT.from_string"}

TaskTupleStrs == {"NTasksPerNBSC.__str__", "ReqBSCT.__str__"}

\* C13: for every string "a:b:c:d" whose slots are "*" or canonical
\* integers in 0..65536, from_string stores "*" as None and an integer as
\* itself, str() of the parsed tuple is the string again with None written
\* "*", and parsing that output gives the same tuple back.
C13_TaskTupleRoundTrip ==
    /\ op \in TaskTupleFromStrings => result = Ok(<<input.slots[1], input.slots[2], input.slots[3], input.slots[4]>>)
    /\ op \in TaskTupleStrs =>
          /\ result = Ok(input.v)
          /\ \A i \in 1..4 : (input.arg[1][i].tag = "none") <=> (SubSeq(PySplit(result.val, ":"), i, i) = <<DONT_CARE>>)
          /\ _bsct_style_from_string(result.val) = Ok(input.arg[1])

\* "*:65536:0:*" has been parsed and written back.
C13_Witness == /\ op = "ReqBSCT.__str__"
               /\ input.slots = <<None, Ok(U16_MAX), Ok(0), None>>
               /\ result.val = <<"*", ":", "6", "5", "5", "3", "6", ":", "0", ":", "*">>

(***************************************************************************)
(* Claims about MemorySpec (SpecMemory).                                   *)
(***************************************************************************)
DocumentedMemoryInput == input.prefix \in {KIBI, MEBI, GIBI, TEBI} /\ input.code \in {MEM_PER_CORE, MEM_PER_NODE}

\* 1024^i as a byte count
Factor(si_prefix) == BigShift(<<1>>, CASE si_prefix = KIBI -> 1 [] si_prefix = MEBI -> 2 [] si_prefix = GIBI -> 3 [] si_prefix = TEBI -> 4)

C16_MemorySpecVocabulary ==
    /\ op = "MemorySpec.from_string" => (result.tag = "ok" <=> DocumentedMemoryInput)
    /\ (op = "MemorySpec.from_string" /\ ~DocumentedMemoryInput) => IsNone(result)
    /\ op = "MemorySpec.__call__" => result.tag = "ok"

(***************************************************************************)
(* Claims about NodeList (SpecNodeList).                                   *)
(***************************************************************************)
\* C17: for every comma-joined list of tokens, each a single node
\* "<prefix><5-digit value>" or a range "<prefix>[<lo>-<hi>]" with lo < hi,
\* from_string returns one node spec per token with the token's prefix, digit
\* width 5 and range, and str() of the parsed list is the string it was
\* parsed from: single values without brackets, ranges with brackets, zero
\* padding kept.
C17_NodeListRoundTrip ==
    /\ op = "NodeList.from_string" =>
          /\ result.tag = "ok"
          /\ Len(result.val) = Len(input.tokens)
          /\ \A i \in 1..Len(input.tokens) : result.val[i] = [_prefix |-> input.tokens[i].prefix, _digits |-> 5, _range |-> <<input.tokens[i].lo, input.tokens[i].hi>>]
    /\ op = "NodeList.__str__" =>
          /\ result = Ok(input.v)
          /\ \A i \in 1..Len(input.tokens) : Contains(PySplit(result.val, ",")[i], "[") <=> (input.tokens[i].lo < input.tokens[i].hi)
          /\ \A i \in 1..Len(input.tokens) : Len(PySplit(result.val, ",")[i]) = Len(input.tokens[i].prefix) + (IF input.tokens[i].lo < input.tokens[i].hi THEN 13 ELSE 5)

\* "c00001,Ab[00000-65536]" has been parsed and written back.
C17_Witness == /\ op = "NodeList.__str__"
               /\ result.val = <<"c", "0", "0", "0", "0", "1", ",", "A", "b", "[", "0", "0", "0", "0", "0", "-", "6", "5", "5", "3", "6", "]">>
               /\ input.v = result.val

(***************************************************************************)
(* Claims about TresSpec (SpecTres).                                       *)
(***************************************************************************)
IsCanonicalInt(v) == IsIntLiteral(v) /\ PyStr(IntLiteralValue(v)) = v

IsGresItem(item) == StartsWith(item.key, _GRES \o <<"/">>) /\ Len(item.key) > 5

IsOtherItem(item) == ~IsGresItem(item)

\* One token of the documented grammar: a numeric key with a canonical
\* non-negative integer, gres/<name> with an integer count, or a list key
\* with a comma-free value.
DocumentedTresItem(item) ==
    \/ item.key \in _NUMERICS /\ IsCanonicalInt(item.value) /\ IntLiteralValue(item.value) >= 0
    \/ IsGresItem(item) /\ IsCanonicalInt(item.value)
    \/ item.key \in _LISTS /\ ~Contains(item.value, ",")

DocumentedTres(items) ==
    /\ \A i \in 1..Len(items) : DocumentedTresItem(items[i])
    /\ \A i \in 1..Len(items) : \A j \in 1..Len(items) : items[i].key = items[j].key => i = j

GresAdjacent(items) == \A i \in 1..Len(items) : \A j \in i..Len(items) : (IsGresItem(items[i]) /\ IsGresItem(items[j])) => \A m \in i..j : IsGresItem(items[m])

\* The tokens with every gres token moved up behind the first gres token.
GresGrouped(items) ==
    IF \A i \in 1..Len(items) : ~IsGresItem(items[i]) THEN items
    ELSE LET first == CHOOSE i \in 1..Len(items) : IsGresItem(items[i]) /\ \A j \in 1..(i - 1) : ~IsGresItem(items[j])
         IN SubSeq(items, 1, first - 1) \o SelectSeq(items, IsGresItem) \o SelectSeq(SubSeq(items, first, Len(items)), IsOtherItem)

RECURSIVE SumOfValues(_)
SumOfValues(values) == IF Len(values) = 0 THEN 0 ELSE IntLiteralValue(values[1]) + SumOfValues(Tail(values))

\* the values of the tokens whose case-folded key is k, in order
RECURSIVE OccurrencesOf(_, _)
OccurrencesOf(items, k) == IF Len(items) = 0 THEN <<>> ELSE (IF PyCasefold(items[1].key) = k THEN <<items[1].value>> ELSE <<>>) \o OccurrencesOf(Tail(items), k)

\* C19: in the TresSpec parsed from a string, a numeric key holds the sum
\* of all its occurrences and a list key holds the list of all its values,
\* each once, in order of occurrence.
C19_RepeatedTresKeysAccumulate ==
    (op = "TresSpec.from_string" /\ result.tag = "ok") =>
        \A i \in 1..Len(input.items) :
            LET k == PyCasefold(input.items[i].key)
                values == OccurrencesOf(input.items, k)
            IN /\ (k \in _NUMERICS /\ \A j \in 1..Len(values) : IsIntLiteral(values[j])) =>
                      (DictHas(result.val, k) /\ DictGet(result.val, k) = TresValue("int", Ok(SumOfValues(values))))
               /\ k \in _LISTS => (DictHas(result.val, k) /\ DictGet(result.val, k) = TresValue("list", values))

\* C20: when some token has a case-folded key that is neither a numeric
\* nor a list resource name nor of the form gres/<name>, from_string raises:
\* the token is not skipped, not filed under another category, and no
\* TresSpec is returned.
C20_TresClosedVocabulary ==
    (op = "TresSpec.from_string" /\ \E i \in 1..Len(input.items) : ~IsRecognizedTresKey(PyCasefold(input.items[i].key))) => result.tag = "raise"

(***************************************************************************)
(* Claims about hyphenated ranges (SpecHyphen).                            *)
(***************************************************************************)
MaxRangeValue == 13

\* the consecutive integers x, x+1, ..., y
Consecutive(x, y) == [i \in 1..(y - x + 1) |-> x + i - 1]

FirstTwoPartsAreIntegers(s) == LET parts == PySplit(s, "-") IN Len(parts) >= 2 /\ IsIntLiteral(parts[1]) /\ IsIntLiteral(parts[2])

\* what one element of a comma-separated list stands for
ElementExpansion(element) == IF Contains(element, "-") THEN hyphenated_range_to_list(element) ELSE IF IsIntLiteral(element) THEN <<IntLiteralValue(element)>> ELSE <<>>

RECURSIVE ConcatExpansions(_)
ConcatExpansions(elements) == IF Len(elements) = 0 THEN <<>> ELSE ElementExpansion(elements[1]) \o ConcatExpansions(Tail(elements))

\* C21: hyphenated_range_to_list("x-y") for 0 <= x <= y is the consecutive
\* integers x..y, and [] whenever one of the first two "-"-separated parts
\* is not an integer; hyphenated_csl_to_list is, in element order, the
\* concatenation of the expansions of its comma-separated elements, [] for
\* "", unparsable elements contribute nothing, and neither function raises.
C21_HyphenatedExpansion ==
    /\ op \in {"hyphenated_range_to_list", "hyphenated_csl_to_list"} => result.tag = "ok"
    /\ op = "hyphenated_range_to_list" =>
          /\ \A x \in 0..MaxRangeValue : \A y \in x..MaxRangeValue :
                input.v = PyStr(x) \o <<"-">> \o PyStr(y) =>
                    (result.val = Consecutive(x, y) /\ Len(result.val) = y - x + 1 /\ result.val[1] = x /\ result.val[Len(result.val)] = y)
          /\ ~FirstTwoPartsAreIntegers(input.v) => result.val = <<>>
          /\ input.v \in {<<>>, <<"a">>, <<"-">>, <<"0">>, <<"0", "-">>, <<"-", "0">>, <<"0", "-", "-", "0">>} => result.val = <<>>
          /\ input.v = <<"0", "-", "3">> => result.val = <<0, 1, 2, 3>>
    /\ op = "hyphenated_csl_to_list" =>
          /\ result.val = ConcatExpansions(PySplit(input.v, ","))
          /\ input.v = <<>> => result.val = <<>>
          /\ input.v = <<"1", ",", "3", "-", "6", ",", "7", ",", "8">> => result.val = <<1, 3, 4, 5, 6, 7, 8>>
          /\ input.v = <<"a", ",", "0", "-", "1">> => result.val = <<0, 1>>

\* "1,3-6,7,8" has been expanded.
C21_Witness == /\ op = "hyphenated_csl_to_list"
               /\ input.v = <<"1", ",", "3", "-", "6", ",", "7", ",", "8">>
               /\ result.val = <<1, 3, 4, 5, 6, 7, 8>>

(***************************************************************************)
(* Claims about CommaHyphenIntRangeList (SpecTypes).                       *)
(***************************************************************************)
IsBareInteger(token) == ~Contains(token, "-") /\ IsIntLiteral(token)

IsIntegerPair(token) == LET parts == PySplit(token, "-") IN Len(parts) = 2 /\ IsIntLiteral(parts[1]) /\ IsIntLiteral(parts[2])

DocumentedRange(token) == IF IsBareInteger(token) THEN <<IntLiteralValue(token), IntLiteralValue(token)>> ELSE <<IntLiteralValue(PySplit(token, "-")[1]), IntLiteralValue(PySplit(token, "-")[2])>>

\* C22: CommaHyphenIntRangeList.from_string returns a list of ranges only
\* when every comma-separated token is a bare integer n, giving (n, n), or
\* two integers "a-b", giving (a, b), with ranges in token order; for any
\* other token, a missing endpoint such as "5-" or "-5" included, it
\* returns None.
C22_RangeListGrammar ==
    op = "CommaHyphenIntRangeList.from_string" =>
        LET tokens == PySplit(input.v, ",")
        IN IF \A i \in 1..Len(tokens) : IsBareInteger(tokens[i]) \/ IsIntegerPair(tokens[i])
           THEN result = Ok([i \in 1..Len(tokens) |-> DocumentedRange(tokens[i])])
           ELSE IsNone(result)

(***************************************************************************)
(* Claims about the field-name mapping tables (SpecMapping).               *)
(***************************************************************************)
AppliedDecoder == DictGet(MappingTables[input.arg[1]], input.arg[2])

\* C23: an entry mapped to the pass-through marker noop (jobstate, reason,
\* partitionname, ...) applied to the raw value s yields s itself, which
\* tells it apart from an ignored entry (_ignore), whose result is None.
C23_NoopPassThrough ==
    op # "init" =>
        /\ AppliedDecoder = "noop" => result = Ok(input.v)
        /\ AppliedDecoder = "_ignore" => IsNone(result)

\* C28: every callable registered as a decoder in the mapping tables,
\* applied to any raw string ('', 'N/A', '(null)' and non-numeric text for
\* the integer-typed fields jobid, nice, priority included), returns a value
\* or None and does not raise.
C28_DecodersNeverRaise == op # "init" => result.tag \in {"ok", "none"}

(***************************************************************************)
(* Claims about parse_slurm_duration_as_hours (SpecDuration).              *)
(***************************************************************************)
\* "hh:mm:ss": three two-digit fields
IsClockForm(t) ==
    LET f == PySplit(t, ":")
    IN Len(f) = 3 /\ \A i \in 1..3 : Len(f[i]) = 2 /\ AllDigits(f[i])

ClockSeconds(t) == LET f == PySplit(t, ":") IN 3600 * DigitsValue(f[1]) + 60 * DigitsValue(f[2]) + DigitsValue(f[3])

\* "d-hh:mm:ss": a day number, a hyphen and a clock
IsDayClockForm(s) ==
    LET p == PySplitMax1(s, "-")
    IN Len(p) = 2 /\ Len(p[1]) > 0 /\ AllDigits(p[1]) /\ IsClockForm(p[2])

\* C24: parse_slurm_duration_as_hours returns the whole hours of a duration
\* "[d-]hh:mm:ss": floor((86400 d + 3600 hh + 60 mm + ss) / 3600) with the
\* day part, floor((3600 hh + 60 mm + ss) / 3600) without it, and -1 for
\* every input not of that form; it does not raise.
C24_DurationAsHours ==
    op = "parse_slurm_duration_as_hours" =>
        /\ result.tag = "ok"
        /\ IsDayClockForm(input.v) => result.val = (86400 * DigitsValue(PySplitMax1(input.v, "-")[1]) + ClockSeconds(PySplitMax1(input.v, "-")[2])) \div 3600
        /\ IsClockForm(input.v) => result.val = ClockSeconds(input.v) \div 3600
        /\ ~IsDayClockForm(input.v) /\ ~IsClockForm(input.v) => result.val = 0 - 1

(***************************************************************************)
(* Claims about Table.from_rows (SpecTable).                               *)
(***************************************************************************)
RowKeyUnion == UNION {KeySet(input.v[i]) : i \in 1..Len(input.v)}

IsKeyUnion(k) == k \in RowKeyUnion

\* The keys of all rows, each once, in ascending order.
SortedKeyUnion == SelectSeq(TableKeys, IsKeyUnion)

\* C25: Table.from_rows builds a rectangular table: its columns are the
\* union of all row keys, each once, in ascending sorted order; shape is
\* (number of rows, number of columns) and size = height * width; cell
\* (i, column) is row i's value for that column, or na_value when row i
\* lacks the key.
C25_TableFromRows ==
    /\ op = "Table.columns" => result.val = SortedKeyUnion
    /\ op = "Table.shape" => result.val = <<Len(input.v), Cardinality(RowKeyUnion)>>
    /\ op = "Table.height" => result.val = Len(input.v)
    /\ op = "Table.width" => result.val = Cardinality(RowKeyUnion)
    /\ op = "Table.size" => result.val = Table_height(input.arg[1]) * Table_width(input.arg[1])
    /\ op = "Table.values" =>
          /\ Len(result.val) = Len(input.v)
          /\ \A i \in 1..Len(result.val) :
                /\ Len(result.val[i]) = Cardinality(RowKeyUnion)
                /\ \A j \in 1..Len(result.val[i]) :
                      result.val[i][j] = PyDictGetDefault(input.v[i], Table_columns(input.arg[1])[j], input.na_value)

(***************************************************************************)
(* Claims about the character-level reverse scanner (SpecScanner).         *)
(***************************************************************************)
\* A pass of the while loop that emitted a pair: the value accumulator, to
\* which every pass appends, is empty afterwards.
ScanEmitted == Len(result'.val.value) = 0

\* The pairs of the first line are in the record of the first line: the
\* field is a column and its cell holds the value, alone or joined to the
\* other values of the field.
PairsInRecord(df) ==
    \A i \in 1..Len(input.pairs) :
        \E k \in 1..Len(df.columns) :
            /\ df.columns[k] = input.pairs[i][1]
            /\ \E j \in 1..Len(PySplit(df.values[1][k], ",")) : PySplit(df.values[1][k], ",")[j] = input.pairs[i][2]

ScannerStepClaim ==
    /\ (IsRunning /\ result.val.pc = "while" /\ Len(result.val.line) > 0) =>
          /\ ScanEmitted <=> (result'.val.c = " " \/ Len(result'.val.line) = 0) /\ (result.val.equals_hit \/ result'.val.c = "=")
          /\ ScanEmitted => Len(result'.val.field) = 0 /\ ~result'.val.equals_hit
    /\ (IsRunning /\ result.val.pc = "while" /\ Len(result.val.line) = 0) => ~result.val.equals_hit
    /\ (IsRunning /\ result'.tag = "ok" /\ Len(input.lead) = 0 /\ Len(input.trail) = 0) => PairsInRecord(result'.val)

\* C26: in the reverse scanner (parse_scontrol) a pair is emitted exactly
\* when a space or the end of the input is reached while equals_hit is
\* true; right after an emission both accumulators are empty and
\* equals_hit is false; when the scan of a line ends no pair is pending, so
\* every pair of a line of valid pairs, the leftmost included, is in the
\* resulting record.
C26_ReverseScanner == [][ScannerStepClaim]_vars


(***************************************************************************)
(* Claims about tokens without "=" (SpecScanner).                          *)
(***************************************************************************)
\* The (field, value) pairs a sequence of pairs consists of.
PairSet(pairs) == {pairs[i] : i \in 1..Len(pairs)}

\* The pairs of a line record of src/parse.py: a field with each of the
\* values joined under it.
RecordPairSet(rec) == UNION {{<<rec[k][1], PySplit(rec[k][2], ",")[j]>> : j \in 1..Len(PySplit(rec[k][2], ","))} : k \in 1..Len(rec)}

RECURSIVE RecordPairCount(_)
RecordPairCount(rec) == IF Len(rec) = 0 THEN 0 ELSE Len(PySplit(rec[1][2], ",")) + RecordPairCount(Tail(rec))

\* The pairs of the line with the trailing tokens appended to the value of
\* the last pair, each after one space.
WithTrail(pairs, trail) == IF Len(pairs) = 0 \/ Len(trail) = 0 THEN pairs ELSE [pairs EXCEPT ![Len(pairs)] = <<@[1], @[2] \o <<" ">> \o PyJoin(<<" ">>, trail)>>]

StrippedValues(pairs) == [i \in 1..Len(pairs) |-> <<pairs[i][1], PyStrip(pairs[i][2])>>]

FirstLineScanned == op = PARSE_PARSE_SCONTROL /\ IsRunning /\ Len(result.val.all_data) >= 1

\* C27: a space-delimited token without "=" before the first or after the
\* last key=value pair of a line contributes nothing to the output: no
\* pair is created for it and no emitted field or value holds its text; an
\* empty line gives no pairs.
C27_StrayTokensDropped ==
    /\ op = "tokenize_scontrol_line" =>
          /\ Len(result.val) = Len(input.pairs)
          /\ PairSet(result.val) = PairSet(input.pairs)
    /\ FirstLineScanned =>
          /\ RecordPairCount(result.val.all_data[1]) = Len(input.pairs)
          /\ RecordPairSet(result.val.all_data[1]) = PairSet(input.pairs)

\* C27 (amended): a token without "=" before the first pair creates no pair
\* and changes nothing; tokens without "=" after the last pair belong to
\* that pair's value, each after one space (the character scanner strips
\* the value); an empty line gives no pairs.
C27_LeadingDroppedTrailingJoined ==
    /\ op = "tokenize_scontrol_line" =>
          /\ Len(result.val) = Len(input.pairs)
          /\ PairSet(result.val) = PairSet(WithTrail(input.pairs, input.trail))
    /\ FirstLineScanned =>
          /\ RecordPairCount(result.val.all_data[1]) = Len(input.pairs)
          /\ RecordPairSet(result.val.all_data[1]) = PairSet(StrippedValues(WithTrail(input.pairs, input.trail)))

\* "x a=c c Nd= x" has been tokenized: the leading x is gone, the trailing x
\* is in the value of Nd.
C27_Witness ==
    /\ op = "tokenize_scontrol_line"
    /\ input.lead = << <<"x">> >>
    /\ input.pairs = << << <<"a">>, <<"c", " ", "c">> >>, << <<"N", "d">>, <<>> >> >>
    /\ input.trail = << <<"x">> >>
    /\ result.val = << << <<"N", "d">>, <<" ", "x">> >>, << <<"a">>, <<"c", " ", "c">> >> >>

(***************************************************************************)
(* Claims about Snapshot.take (SpecSnapshot).                              *)
(***************************************************************************)
\* C29: under every interleaving and completion order of the workers, when
\* take() returns the snapshot's data has exactly one entry per source in
\* self.sources and the entry of a source is the output of that source's
\* own command: no result is stored under another source's key and none is
\* lost to the shutdown of the pool.
C29_TakeGathersEverySource ==
    (op \in {LOAD_SNAPSHOT_TAKE, PARSE_SNAPSHOT_TAKE} /\ result.tag = "ok") =>
        /\ DictKeys(result.val) \in {sources, PyReversed(sources)}
        /\ \A i \in 1..Len(sources) : DictHas(result.val, sources[i]) /\ DictGet(result.val, sources[i]) = DictGet(input.v, sources[i])

(***************************************************************************)
(* Claims about command.run (SpecCommand).                                 *)
(***************************************************************************)
RunResult == Ok(Result___init__(PyDecodeUtf8Ignore(input.v.stdout), PyDecodeUtf8Ignore(input.v.stderr), input.v.returncode))

\* C30: with error_handling = "raise" (the default) run returns a Result
\* with stdout, stderr and returncode when the process exits with code 0
\* and raises RuntimeError(stderr) when the code is positive; with
\* "ignore" it returns a Result for every exit code; no valid mode and exit
\* code reach the "assert False" branch.
C30_RunOutcome ==
    (op \in {"run", "run.default"} /\ input.v.found) =>
        /\ (input.error_handling = RAISE /\ input.v.returncode = 0) => result = RunResult
        /\ (input.error_handling = RAISE /\ input.v.returncode > 0) => (result.tag = "raise" /\ result.exc = "RuntimeError" /\ result.val = PyDecodeUtf8Ignore(input.v.stderr))
        /\ input.error_handling = IGNORE => result = RunResult
        /\ input.error_handling \in {RAISE, IGNORE} => result.exc # "AssertionError"

====
